---- MODULE Spec2Model ----
(***************************************************************************)
(* reggie: a Python-flavoured regular expression is handed over by the     *)
(* grammar as a tree of pairs, built into a Pattern tree, and queried      *)
(* (as_string, min_match_len, is_finite, groups_count, nth_group, group    *)
(* indices).  Text is a sequence of one-character strings.                 *)
(***************************************************************************)
EXTENDS Integers, Sequences, FiniteSets, TLC

VARIABLES input, phase, pattern, text, indices, ops

vars == <<input, phase, pattern, text, indices, ops>>

(***************************************************************************)
(* Option and Result values                                                *)
(***************************************************************************)
None == <<>>

Some(x) == <<x>>

is_some(o) == Len(o) = 1

unwrap(o) == o[1]

Ok(v) == [ok |-> TRUE, val |-> v]

Err(e) == [ok |-> FALSE, err |-> e]

\* the outcome of reaching unreachable!() or a failed unwrap()
Panic == <<"<panic>">>

(***************************************************************************)
(* Text helpers                                                            *)
(***************************************************************************)
Digits == <<"0", "1", "2", "3", "4", "5", "6", "7", "8", "9">>

IsDigit(c) == \E i \in 1..10 : Digits[i] = c

DigitVal(c) == (CHOOSE i \in 1..10 : Digits[i] = c) - 1

RECURSIVE to_string(_)
to_string(n) == IF n < 10 THEN <<Digits[n + 1]>>
                ELSE to_string(n \div 10) \o <<Digits[(n % 10) + 1]>>

RECURSIVE DigitsVal(_)
DigitsVal(s) == IF s = <<>> THEN 0
                ELSE DigitsVal(SubSeq(s, 1, Len(s) - 1)) * 10 + DigitVal(s[Len(s)])

\* str::parse::<usize>: an optional leading plus sign, then one or more digits
parse_usize(s) ==
    LET d == IF s # <<>> /\ s[1] = "+" THEN Tail(s) ELSE s
    IN  IF d # <<>> /\ \A i \in 1..Len(d) : IsDigit(d[i])
        THEN Some(DigitsVal(d)) ELSE None

\* char::len_utf8: the bytes a character takes in a String
len_utf8(c) == IF c \in {"é"} THEN 2 ELSE 1

\* String::len
RECURSIVE String_len(_)
String_len(s) == IF s = <<>> THEN 0 ELSE len_utf8(Head(s)) + String_len(Tail(s))

RECURSIVE Concat(_)
Concat(ss) == IF ss = <<>> THEN <<>> ELSE Head(ss) \o Concat(Tail(ss))

\* position of the first c in s, or 0
IndexOf(s, c) == IF \E i \in 1..Len(s) : s[i] = c
                 THEN CHOOSE i \in 1..Len(s) : s[i] = c /\ \A j \in 1..(i - 1) : s[j] # c
                 ELSE 0

\* str::split(c) as the sequence of its pieces
RECURSIVE split(_, _)
split(s, c) == LET i == IndexOf(s, c)
               IN  IF i = 0 THEN <<s>>
                   ELSE <<SubSeq(s, 1, i - 1)>> \o split(SubSeq(s, i + 1, Len(s)), c)

strip_suffix(s, c) == IF s # <<>> /\ s[Len(s)] = c
                      THEN Some(SubSeq(s, 1, Len(s) - 1)) ELSE None

strip_prefix(s, c) == IF s # <<>> /\ s[1] = c THEN Some(Tail(s)) ELSE None

(***************************************************************************)
(* Errors                                                                  *)
(***************************************************************************)
unexpected_input(p) == [kind |-> "UnexpectedInput", input |-> p.str, char_ix |-> p.col]

unexpected_eoi(char_ix) == [kind |-> "UnexpectedEndOfInput", char_ix |-> char_ix]

(***************************************************************************)
(* Quantifiers                                                             *)
(***************************************************************************)
ZeroOrOne == [kind |-> "ZeroOrOne"]

ZeroOrMore == [kind |-> "ZeroOrMore"]

OneOrMore == [kind |-> "OneOrMore"]

NExact(n) == [kind |-> "NExact", n |-> n]

NTimes(min, max) == [kind |-> "NTimes", min |-> min, max |-> max]

Quantifier_new(q) == [quantifier |-> q, greed |-> "Greedy"]

set_greed(qf, greed) == [qf EXCEPT !.greed = greed]

set_quantifier(qf, q) == [qf EXCEPT !.quantifier = q]

\* Q::n_from_pair: the brace body that follows l_brace
Q_n_from_pair(inner, char_ix) ==
    IF inner = <<>> THEN Err(unexpected_eoi(char_ix))
    ELSE LET nt_match == Head(inner)
             s == nt_match.str
         IN CASE nt_match.rule = "n_exact" ->
                   LET n == parse_usize(s)
                   IN  IF is_some(n) THEN Ok(NExact(unwrap(n)))
                       ELSE Err(unexpected_input(nt_match))
              [] nt_match.rule = "n_between" ->
                   LET vals == split(s, ",")
                       min == parse_usize(vals[1])
                   IN  IF ~is_some(min) THEN Err(unexpected_input(nt_match))
                       ELSE IF Len(vals) < 2 THEN Err(unexpected_eoi(nt_match.col))
                       ELSE LET max == parse_usize(vals[2])
                            IN  IF ~is_some(max) THEN Err(unexpected_input(nt_match))
                                ELSE Ok(NTimes(min, max))
              [] nt_match.rule = "n_at_least" ->
                   LET t == strip_suffix(s, ",")
                   IN  IF ~is_some(t) THEN Err(unexpected_eoi(nt_match.col))
                       ELSE LET min == parse_usize(unwrap(t))
                            IN  IF ~is_some(min) THEN Err(unexpected_input(nt_match))
                                ELSE Ok(NTimes(min, None))
              [] nt_match.rule = "n_at_most" ->
                   LET t == strip_prefix(s, ",")
                   IN  IF ~is_some(t) THEN Err(unexpected_eoi(nt_match.col))
                       ELSE LET max == parse_usize(unwrap(t))
                            IN  IF ~is_some(max) THEN Err(unexpected_input(nt_match))
                                ELSE Ok(NTimes(None, max))
              [] OTHER -> Err(unexpected_input(nt_match))

\* the second loop of Quantifier::from_pair: the greediness suffixes
RECURSIVE greed_loop(_, _)
greed_loop(qf, rest) ==
    IF rest = <<>> THEN Ok(qf)
    ELSE LET greed_match == Head(rest)
         IN CASE greed_match.rule = "question_mark" ->
                   greed_loop(set_greed(qf, "NonGreedy"), Tail(rest))
              [] greed_match.rule = "plus" ->
                   greed_loop(set_greed(qf, "Possessive"), Tail(rest))
              [] greed_match.rule = "r_brace" -> greed_loop(qf, Tail(rest))
              [] OTHER -> Err(unexpected_input(greed_match))

Quantifier_from_pair(pair) ==
    IF pair.rule # "quantifier" THEN Err(unexpected_input(pair))
    ELSE IF pair.inner = <<>> THEN Err(unexpected_eoi(pair.col))
    ELSE LET q_match == Head(pair.inner)
             rest == Tail(pair.inner)
         IN CASE q_match.rule = "question_mark" -> greed_loop(Quantifier_new(ZeroOrOne), rest)
              [] q_match.rule = "asterisk" -> greed_loop(Quantifier_new(ZeroOrMore), rest)
              [] q_match.rule = "plus" -> greed_loop(Quantifier_new(OneOrMore), rest)
              [] q_match.rule = "l_brace" ->
                   LET q == Q_n_from_pair(rest, pair.col)
                   IN  IF ~q.ok THEN q
                       ELSE greed_loop(Quantifier_new(q.val), Tail(rest))
              [] q_match.rule = "r_brace" -> Err(unexpected_eoi(pair.col))
              [] OTHER -> Err(unexpected_input(q_match))

\* a wrong reading of as_string that C22 rules out: the greediness suffix is
\* written for the non-greedy mode only
Quantifier_as_string_lazy_only(qf) ==
    LET q == qf.quantifier
        n == IF q.kind = "NExact" THEN <<Some(q.n), Some(q.n)>>
             ELSE IF q.kind = "NTimes" THEN <<q.min, q.max>> ELSE <<None, None>>
        num(o) == IF is_some(o) THEN to_string(unwrap(o)) ELSE <<>>
        s == CASE q.kind = "ZeroOrOne" -> <<"?">>
               [] q.kind = "ZeroOrMore" -> <<"*">>
               [] q.kind = "OneOrMore" -> <<"+">>
               [] q.kind = "NExact" -> <<"{">> \o to_string(q.n) \o <<"}">>
               [] q.kind = "NTimes" -> <<"{">> \o num(n[1]) \o <<",">> \o num(n[2]) \o <<"}">>
    IN  IF q.kind = "NTimes" /\ n = <<None, None>> THEN Panic
        ELSE s \o (IF qf.greed = "NonGreedy" THEN <<"?">> ELSE <<>>)

Quantifier_as_string(qf) ==
    LET q == qf.quantifier
        s == CASE q.kind = "ZeroOrOne" -> Some(<<"?">>)
               [] q.kind = "ZeroOrMore" -> Some(<<"*">>)
               [] q.kind = "OneOrMore" -> Some(<<"+">>)
               [] q.kind = "NExact" -> Some(<<"{">> \o to_string(q.n) \o <<"}">>)
               [] q.kind = "NTimes" /\ is_some(q.min) /\ ~is_some(q.max) ->
                    Some(<<"{">> \o to_string(unwrap(q.min)) \o <<",", "}">>)
               [] q.kind = "NTimes" /\ ~is_some(q.min) /\ is_some(q.max) ->
                    Some(<<"{", ",">> \o to_string(unwrap(q.max)) \o <<"}">>)
               [] q.kind = "NTimes" /\ is_some(q.min) /\ is_some(q.max) ->
                    Some(<<"{">> \o to_string(unwrap(q.min)) \o <<",">>
                         \o to_string(unwrap(q.max)) \o <<"}">>)
               [] OTHER -> None
    IN  IF ~is_some(s) THEN Panic
        ELSE unwrap(s) \o (CASE qf.greed = "NonGreedy" -> <<"?">>
                             [] qf.greed = "Possessive" -> <<"+">>
                             [] OTHER -> <<>>)

\* a wrong reading of is_finite that C5 rules out: any bound makes it finite
Quantifier_is_finite_any_bound(qf) ==
    \/ qf.quantifier.kind \in {"ZeroOrOne", "NExact"}
    \/ qf.quantifier.kind = "NTimes"
           /\ (is_some(qf.quantifier.min) \/ is_some(qf.quantifier.max))

Quantifier_is_finite(qf) ==
    \/ qf.quantifier.kind \in {"ZeroOrOne", "NExact"}
    \/ qf.quantifier.kind = "NTimes" /\ is_some(qf.quantifier.max)

\* a wrong reading of min_len_multiplier that C6 rules out: one repetition
\* of a starred payload
min_len_multiplier_star_one(qf) ==
    LET q == qf.quantifier
    IN CASE q.kind = "ZeroOrOne" -> 0
         [] q.kind \in {"ZeroOrMore", "OneOrMore"} -> 1
         [] q.kind = "NExact" -> q.n
         [] q.kind = "NTimes" -> IF is_some(q.min) THEN unwrap(q.min) ELSE 0

min_len_multiplier(qf) ==
    LET q == qf.quantifier
    IN CASE q.kind \in {"ZeroOrOne", "ZeroOrMore"} -> 0
         [] q.kind = "OneOrMore" -> 1
         [] q.kind = "NExact" -> q.n
         [] q.kind = "NTimes" -> IF is_some(q.min) THEN unwrap(q.min) ELSE 0

(***************************************************************************)
(* Flags                                                                   *)
(***************************************************************************)
\* Ord for Flag: the Ordering of (self, other)
Flag_cmp(self, other) ==
    CASE self = other -> "Equal"
      [] self = "Ascii" -> "Greater"
      [] self = "Ignorecase" -> "Greater"
      [] OTHER -> "Equal"

\* BTreeSet::insert on one leaf: the keys are searched left to right with cmp
RECURSIVE search_node(_, _, _)
search_node(keys, flag, i) ==
    IF i > Len(keys) THEN [found |-> FALSE, at |-> i]
    ELSE LET c == Flag_cmp(flag, keys[i])
         IN CASE c = "Greater" -> search_node(keys, flag, i + 1)
              [] c = "Equal" -> [found |-> TRUE, at |-> i]
              [] OTHER -> [found |-> FALSE, at |-> i]

Flags_add(keys, flag) ==
    LET r == search_node(keys, flag, 1)
    IN  IF r.found THEN keys
        ELSE SubSeq(keys, 1, r.at - 1) \o <<flag>> \o SubSeq(keys, r.at, Len(keys))

Flag_as_str(flag) ==
    CASE flag = "Ascii" -> "a"
      [] flag = "Ignorecase" -> "i"
      [] flag = "Locale" -> "L"
      [] flag = "Multiline" -> "m"
      [] flag = "Dotall" -> "s"
      [] flag = "Unicode" -> "u"
      [] flag = "Verbose" -> "x"

Flag_from_char(c) ==
    CASE c = "a" -> Ok("Ascii")
      [] c = "i" -> Ok("Ignorecase")
      [] c = "L" -> Ok("Locale")
      [] c = "m" -> Ok("Multiline")
      [] c = "s" -> Ok("Dotall")
      [] c = "u" -> Ok("Unicode")
      [] c = "x" -> Ok("Verbose")
      [] OTHER -> Err([kind |-> "InvalidFlag", bad_flag |-> c])

\* the loop `for c in s.chars() { flags.add(Flag::from_char(c)?) }`
RECURSIVE add_chars(_, _)
add_chars(keys, s) ==
    IF s = <<>> THEN Ok(keys)
    ELSE LET f == Flag_from_char(Head(s))
         IN  IF ~f.ok THEN f ELSE add_chars(Flags_add(keys, f.val), Tail(s))

Flags_as_string(keys) == <<"?">> \o [i \in 1..Len(keys) |-> Flag_as_str(keys[i])]

GroupFlags_empty == [pos |-> <<>>, neg |-> <<>>]

GroupFlags_is_empty(f) == f.pos = <<>> /\ f.neg = <<>>

GroupFlags_from_pair(pair) ==
    LET s == split(pair.str, "-")
        pos == add_chars(<<>>, s[1])
    IN  IF ~pos.ok THEN pos
        ELSE IF Len(s) < 2 THEN Ok([pos |-> pos.val, neg |-> <<>>])
        ELSE LET neg == add_chars(<<>>, s[2])
             IN  IF ~neg.ok THEN neg ELSE Ok([pos |-> pos.val, neg |-> neg.val])

GroupFlags_as_string(f) ==
    IF f.neg # <<>> THEN Flags_as_string(f.pos) \o <<"-">> \o Flags_as_string(f.neg)
    ELSE Flags_as_string(f.pos)

from_whole_pattern_pair(pair) ==
    IF Len(pair.inner) < 2 THEN Err(unexpected_eoi(pair.col))
    ELSE LET flag_match == pair.inner[2]
         IN  IF flag_match.rule = "flags"
             THEN LET keys == add_chars(<<>>, flag_match.str)
                  IN  IF ~keys.ok THEN keys ELSE Ok([pos |-> keys.val, neg |-> <<>>])
             ELSE Err(unexpected_input(flag_match))

(***************************************************************************)
(* Character sets: a DisjointRange<char> is the ascending sequence of its  *)
(* maximal runs <<low, high>> over the character codes                     *)
(***************************************************************************)
\* the characters the model's texts are written in, in code order
Alphabet == <<"\t", "\n", "\r", " ", "-", "/", "0", "5", "9", ":", "A", "M", "Z",
              "[", "^", "_", "a", "b", "c", "d", "x", "y", "z", "{">>

ord(c) == CHOOSE i \in 1..Len(Alphabet) : Alphabet[i] = c

chr(i) == Alphabet[i]

CodesOf(dr) == UNION {dr[i][1]..dr[i][2] : i \in 1..Len(dr)}

RECURSIVE FromCodes(_)
FromCodes(S) ==
    IF S = {} THEN <<>>
    ELSE LET lo == CHOOSE x \in S : \A y \in S : x <= y
             hi == CHOOSE x \in S : /\ x >= lo
                                    /\ (lo..x) \subseteq S
                                    /\ (x + 1) \notin S
         IN  <<<<lo, hi>>>> \o FromCodes(S \ (lo..hi))

add_unary_range(dr, low, high) == FromCodes(CodesOf(dr) \cup (ord(low)..ord(high)))

add_disjoint_range(dr, other) == FromCodes(CodesOf(dr) \cup CodesOf(other))

complement(dr) == FromCodes((1..Len(Alphabet)) \ CodesOf(dr))

digit_range == <<<<ord("0"), ord("9")>>>>

whitespace_range == FromCodes((ord("\t")..ord("\r")) \cup {ord(" ")})

word_range == FromCodes((ord("a")..ord("z")) \cup (ord("A")..ord("Z"))
                        \cup (ord("0")..ord("9")))

CClass_from_str(s) ==
    LET t == strip_prefix(s, "\\")
    IN  IF ~is_some(t) THEN Err([kind |-> "InvalidCharClass", bad_cclass |-> s])
        ELSE LET o == unwrap(t)
             IN CASE o = <<"d">> -> Ok([class |-> "D", negated |-> FALSE])
                  [] o = <<"D">> -> Ok([class |-> "D", negated |-> TRUE])
                  [] o = <<"s">> -> Ok([class |-> "S", negated |-> FALSE])
                  [] o = <<"S">> -> Ok([class |-> "S", negated |-> TRUE])
                  [] o = <<"w">> -> Ok([class |-> "W", negated |-> FALSE])
                  [] o = <<"W">> -> Ok([class |-> "W", negated |-> TRUE])
                  [] OTHER -> Err([kind |-> "InvalidCharClass", bad_cclass |-> o])

CharClass_to_range(cc) ==
    LET range == CASE cc.class = "D" -> digit_range
                   [] cc.class = "S" -> whitespace_range
                   [] cc.class = "W" -> word_range
    IN  IF cc.negated THEN complement(range) ELSE range

CharClass_from_pair(pair) ==
    IF Len(pair.inner) < 2 THEN Err(unexpected_eoi(pair.col))
    ELSE CClass_from_str(pair.inner[2].str)

\* the while loop of CharSet::from_pair over the children of a char_set pair
RECURSIVE char_set_loop(_, _, _)
char_set_loop(items, char_ranges, negated) ==
    IF items = <<>>
    THEN Ok([kind |-> "CharSet",
             char_ranges |-> IF negated THEN complement(char_ranges) ELSE char_ranges])
    ELSE LET p == Head(items)
             rest == Tail(items)
         IN CASE p.rule = "set_negation" -> char_set_loop(rest, char_ranges, TRUE)
              [] p.rule = "char_range" ->
                   IF Len(p.inner) < 1 \/ p.inner[1].str = <<>>
                      \/ Len(p.inner) < 3 \/ p.inner[3].str = <<>>
                   THEN Err(unexpected_eoi(p.col))
                   ELSE char_set_loop(rest,
                            add_unary_range(char_ranges, p.inner[1].str[1], p.inner[3].str[1]),
                            negated)
              [] p.rule \in {"hyphen", "escaped_hyphen"} ->
                   char_set_loop(rest, add_unary_range(char_ranges, "-", "-"), negated)
              [] p.rule = "set_literal" ->
                   IF p.str = <<>> THEN Err(unexpected_eoi(p.col))
                   ELSE char_set_loop(rest, add_unary_range(char_ranges, p.str[1], p.str[1]),
                                      negated)
              [] p.rule = "caret" ->
                   char_set_loop(rest, add_unary_range(char_ranges, "^", "^"), negated)
              [] p.rule = "char_class" ->
                   LET cls == CharClass_from_pair(p)
                   IN  IF ~cls.ok THEN cls
                       ELSE char_set_loop(rest,
                                add_disjoint_range(char_ranges, CharClass_to_range(cls.val)),
                                negated)
              [] p.rule \in {"l_sq", "r_sq"} -> char_set_loop(rest, char_ranges, negated)
              [] OTHER -> Err(unexpected_input(p))

\* Ok(set), Err(e), or Panic when the pair is no char_set
CharSet_from_pair(pair) ==
    IF pair.rule = "char_set" THEN char_set_loop(pair.inner, <<>>, FALSE)
    ELSE [ok |-> FALSE, err |-> [kind |-> "Panic"]]

RECURSIVE ranges_text(_)
ranges_text(dr) ==
    IF dr = <<>> THEN <<>>
    ELSE <<chr(dr[1][1]), "-", chr(dr[1][2])>> \o ranges_text(Tail(dr))

CharSet_as_string(cs) == <<"[">> \o ranges_text(cs.char_ranges) \o <<"]">>

(***************************************************************************)
(* Elements                                                                *)
(***************************************************************************)
Literal_from_pair(pair) ==
    IF pair.rule = "literals" THEN Ok([kind |-> "Literal", lit |-> pair.str])
    ELSE Err(unexpected_input(pair))

\* Element::from_pair
Element_from_pair(pair) ==
    CASE pair.rule = "char_set" -> CharSet_from_pair(pair)
      [] pair.rule = "literals" -> Literal_from_pair(pair)
      [] OTHER -> Err(unexpected_input(pair))

\* Element::charset_from_pair
charset_from_pair(pair) == CharSet_from_pair(pair)

Literal_as_string(l) == l.lit

\* String::len is the length in bytes
Literal_min_match_len(l) == String_len(l.lit)

CharSet_min_match_len(cs) == 1

Element_as_string(e) ==
    IF e.kind = "CharSet" THEN CharSet_as_string(e) ELSE Literal_as_string(e)

Element_min_match_len(e) ==
    IF e.kind = "CharSet" THEN CharSet_min_match_len(e) ELSE Literal_min_match_len(e)

ZeroWidthLiteral_from_pair(pair) ==
    LET s == pair.str
    IN CASE s \in {<<"\\", "A">>, <<"\\", "a">>} -> Ok("InputStart")
         [] s = <<"\\", "b">> -> Ok("WordBoundary")
         [] s = <<"\\", "B">> -> Ok("NotWordBoundary")
         [] s \in {<<"\\", "Z">>, <<"\\", "z">>} -> Ok("InputEnd")
         [] OTHER -> Err([kind |-> "InvalidLiteral", bad_literal |-> s])

ZeroWidthLiteral_as_string(zwl) ==
    CASE zwl = "InputStart" -> <<"\\", "a">>
      [] zwl = "InputEnd" -> <<"\\", "z">>
      [] zwl = "NotWordBoundary" -> <<"\\", "B">>
      [] zwl = "WordBoundary" -> <<"\\", "b">>

(***************************************************************************)
(* The builder: pairs to Pattern trees                                     *)
(***************************************************************************)
Quantified(quantifiable, quantifier) ==
    [kind |-> "Quantified", quantifiable |-> quantifiable, quantifier |-> quantifier]

GroupNode(ext, flags, name, components) ==
    [kind |-> "Group", ext |-> ext, flags |-> flags, name |-> name,
     components |-> components]

RECURSIVE SubPattern_from_pair(_)
RECURSIVE single_from_pair(_, _)
RECURSIVE Quantified_from_pair(_, _)
RECURSIVE Group_from_pair(_)
RECURSIVE plain_group_loop(_, _)
RECURSIVE inner_components_loop(_, _)
RECURSIVE ternary_group_from_pairs(_)
RECURSIVE alternatives_loop(_, _)

\* the for loop of Group::plain_group_from_pairs: pairs that are no sub_pattern
\* are passed over
plain_group_loop(inner, c) ==
    IF inner = <<>> THEN Ok(c)
    ELSE IF Head(inner).rule = "sub_pattern"
         THEN LET r == SubPattern_from_pair(Head(inner))
              IN  IF ~r.ok THEN r ELSE plain_group_loop(Tail(inner), Append(c, r.val))
         ELSE plain_group_loop(Tail(inner), c)

plain_group_from_pairs(fst, inner) ==
    LET first == SubPattern_from_pair(fst)
    IN  IF ~first.ok THEN first
        ELSE LET c == plain_group_loop(inner, <<first.val>>)
             IN  IF ~c.ok THEN c
                 ELSE Ok(GroupNode(None, GroupFlags_empty, None, c.val))

inner_components_loop(inner, comps) ==
    IF inner = <<>> THEN Ok(comps)
    ELSE LET p == Head(inner)
         IN CASE p.rule = "sub_pattern" ->
                   LET r == SubPattern_from_pair(p)
                   IN  IF ~r.ok THEN r
                       ELSE inner_components_loop(Tail(inner), Append(comps, r.val))
              [] p.rule = "r_parens" -> inner_components_loop(Tail(inner), comps)
              [] OTHER -> Err(unexpected_input(p))

\* a wrong reading of inner_components that C20 rules out: a component that
\* fails to build is left out
inner_components_skipping(inner) ==
    LET built == SelectSeq(inner, LAMBDA p : p.rule = "sub_pattern"
                                               /\ SubPattern_from_pair(p).ok)
    IN  Ok([i \in 1..Len(built) |-> SubPattern_from_pair(built[i]).val])

inner_components(inner) == inner_components_loop(inner, <<>>)

mk_ext_group(ext, pairs) ==
    LET components == inner_components(pairs)
    IN  IF ~components.ok THEN components
        ELSE Ok(GroupNode(Some(ext), GroupFlags_empty, None, components.val))

noncapturing_group_from_pairs(ext_pair, inner) ==
    LET flags == IF ext_pair.inner # <<>> THEN GroupFlags_from_pair(Head(ext_pair.inner))
                 ELSE Ok(GroupFlags_empty)
    IN  IF ~flags.ok THEN flags
        ELSE LET components == inner_components(inner)
             IN  IF ~components.ok THEN components
                 ELSE Ok(GroupNode(Some("NonCapturing"), flags.val, None, components.val))

named_backref_from_pairs(ext_pair) ==
    IF Len(ext_pair.inner) < 2 THEN Err(unexpected_eoi(ext_pair.col))
    ELSE IF ext_pair.inner[2].inner = <<>> THEN Err(unexpected_eoi(ext_pair.col))
    ELSE Ok([kind |-> "NamedBackref", name |-> ext_pair.inner[2].inner[1].str])

named_group_from_pairs(ext_pair, inner) ==
    IF Len(ext_pair.inner) < 2 THEN Err(unexpected_eoi(ext_pair.col))
    ELSE LET components == inner_components(inner)
         IN  IF ~components.ok THEN components
             ELSE Ok(GroupNode(None, GroupFlags_empty, Some(ext_pair.inner[2].str),
                               components.val))

\* a wrong reading of ternary_group_from_pairs that C28 rules out: a
\* separator with nothing behind it is passed over
ternary_group_from_pairs_lenient(ext_pair) ==
    LET char_ix == ext_pair.col
        inner == ext_pair.inner
    IN  IF inner = <<>> THEN Err(unexpected_eoi(char_ix))
        ELSE IF Len(inner[1].inner) < 2 THEN Err(unexpected_eoi(char_ix))
        ELSE LET group == inner[1].inner[2]
                 group_id ==
                     CASE group.rule = "numbered_group_id" ->
                            LET n == parse_usize(group.str)
                            IN  IF is_some(n) THEN Ok([kind |-> "Numbered", n |-> unwrap(n)])
                                ELSE Err(unexpected_input(group))
                       [] group.rule = "named_group_id" ->
                            Ok([kind |-> "Named", name |-> group.str])
                       [] OTHER -> Err(unexpected_input(group))
             IN  IF ~group_id.ok THEN group_id
                 ELSE IF Len(inner) < 3 THEN Err(unexpected_eoi(char_ix))
                 ELSE LET yes_pat == SubPattern_from_pair(inner[3])
                      IN  IF ~yes_pat.ok THEN yes_pat
                          ELSE IF Len(inner) < 5
                          THEN Ok([kind |-> "Ternary", group_id |-> group_id.val,
                                   yes_pat |-> yes_pat.val, no_pat |-> None])
                          ELSE LET no_pat == SubPattern_from_pair(inner[5])
                               IN  IF ~no_pat.ok THEN no_pat
                                   ELSE Ok([kind |-> "Ternary", group_id |-> group_id.val,
                                            yes_pat |-> yes_pat.val,
                                            no_pat |-> Some(no_pat.val)])

ternary_group_from_pairs(ext_pair) ==
    LET char_ix == ext_pair.col
        inner == ext_pair.inner
    IN  IF inner = <<>> THEN Err(unexpected_eoi(char_ix))
        ELSE IF Len(inner[1].inner) < 2 THEN Err(unexpected_eoi(char_ix))
        ELSE LET group == inner[1].inner[2]
                 group_id ==
                     CASE group.rule = "numbered_group_id" ->
                            LET n == parse_usize(group.str)
                            IN  IF is_some(n) THEN Ok([kind |-> "Numbered", n |-> unwrap(n)])
                                ELSE Err(unexpected_input(group))
                       [] group.rule = "named_group_id" ->
                            Ok([kind |-> "Named", name |-> group.str])
                       [] OTHER -> Err(unexpected_input(group))
             IN  IF ~group_id.ok THEN group_id
                 ELSE IF Len(inner) < 3 THEN Err(unexpected_eoi(char_ix))
                 ELSE LET yes_pat == SubPattern_from_pair(inner[3])
                      IN  IF ~yes_pat.ok THEN yes_pat
                          ELSE IF Len(inner) < 4
                          THEN Ok([kind |-> "Ternary", group_id |-> group_id.val,
                                   yes_pat |-> yes_pat.val, no_pat |-> None])
                          ELSE IF Len(inner) < 5 THEN Err(unexpected_eoi(char_ix))
                          ELSE LET no_pat == SubPattern_from_pair(inner[5])
                               IN  IF ~no_pat.ok THEN no_pat
                                   ELSE Ok([kind |-> "Ternary", group_id |-> group_id.val,
                                            yes_pat |-> yes_pat.val,
                                            no_pat |-> Some(no_pat.val)])

ext_group_from_pairs(fst, inner) ==
    IF Len(fst.inner) < 2 THEN Err(unexpected_eoi(fst.col))
    ELSE LET ext_pair == fst.inner[2]
         IN CASE ext_pair.rule = "noncapturing" -> noncapturing_group_from_pairs(ext_pair, inner)
              [] ext_pair.rule = "atomic" -> mk_ext_group("Atomic", inner)
              [] ext_pair.rule = "pos_lookahead" -> mk_ext_group("PosLookahead", inner)
              [] ext_pair.rule = "neg_lookahead" -> mk_ext_group("NegLookahead", inner)
              [] ext_pair.rule = "pos_lookbehind" -> mk_ext_group("PosLookbehind", inner)
              [] ext_pair.rule = "neg_lookbehind" -> mk_ext_group("NegLookbehind", inner)
              [] ext_pair.rule = "named_backref" -> named_backref_from_pairs(ext_pair)
              [] ext_pair.rule = "named" -> named_group_from_pairs(ext_pair, inner)
              [] ext_pair.rule = "ternary" -> ternary_group_from_pairs(ext_pair)
              [] OTHER -> Err(unexpected_input(ext_pair))

Group_from_pair(pair) ==
    IF Len(pair.inner) < 2 THEN Err(unexpected_eoi(pair.col))
    ELSE LET fst == pair.inner[2]
             inner == SubSeq(pair.inner, 3, Len(pair.inner))
         IN CASE fst.rule = "group_ext" -> ext_group_from_pairs(fst, inner)
              [] fst.rule = "sub_pattern" -> plain_group_from_pairs(fst, inner)
              [] OTHER -> Err(unexpected_input(fst))

\* [res, rest]: the result and what is left of the sibling iterator
\* a wrong reading of Quantified::from_pair that C27 rules out: the sibling
\* that follows is taken off the iterator whatever it is
Quantified_from_pair_taking(pair, inner) ==
    LET quantifiable ==
            CASE pair.rule = "char_set" -> CharSet_from_pair(pair)
              [] pair.rule = "literals" -> Literal_from_pair(pair)
              [] pair.rule = "group" -> Group_from_pair(pair)
              [] OTHER -> Err(unexpected_input(pair))
    IN  IF ~quantifiable.ok THEN [res |-> quantifiable, rest |-> inner]
        ELSE IF inner = <<>> THEN [res |-> Ok(Quantified(quantifiable.val, None)), rest |-> inner]
        ELSE IF Head(inner).rule = "quantifier"
        THEN LET q == Quantifier_from_pair(Head(inner))
             IN  IF ~q.ok THEN [res |-> q, rest |-> Tail(inner)]
                 ELSE [res |-> Ok(Quantified(quantifiable.val, Some(q.val))),
                       rest |-> Tail(inner)]
        ELSE [res |-> Ok(Quantified(quantifiable.val, None)), rest |-> Tail(inner)]

Quantified_from_pair(pair, inner) ==
    LET quantifiable ==
            CASE pair.rule = "char_set" -> CharSet_from_pair(pair)
              [] pair.rule = "literals" -> Literal_from_pair(pair)
              [] pair.rule = "group" -> Group_from_pair(pair)
              [] OTHER -> Err(unexpected_input(pair))
    IN  IF ~quantifiable.ok THEN [res |-> quantifiable, rest |-> inner]
        ELSE IF inner # <<>> /\ Head(inner).rule = "quantifier"
        THEN LET q == Quantifier_from_pair(Head(inner))
             IN  IF ~q.ok THEN [res |-> q, rest |-> Tail(inner)]
                 ELSE [res |-> Ok(Quantified(quantifiable.val, Some(q.val))),
                       rest |-> Tail(inner)]
        ELSE [res |-> Ok(Quantified(quantifiable.val, None)), rest |-> inner]

comment_group_from_pair(pair) ==
    IF Len(pair.inner) < 4 THEN Err(unexpected_eoi(pair.col))
    ELSE Ok([kind |-> "Comment", comment |-> pair.inner[4].str])

zwl_from_pair(pair) ==
    LET z == ZeroWidthLiteral_from_pair(pair)
    IN  IF ~z.ok THEN z ELSE Ok([kind |-> "ZeroWidthLiteral", zwl |-> z.val])

\* the while loop of Alternatives::from_pair
alternatives_loop(inner, alts) ==
    IF inner = <<>> THEN Ok([kind |-> "Alternatives", alts |-> alts])
    ELSE LET m == Head(inner)
         IN CASE m.rule = "pipe" -> alternatives_loop(Tail(inner), alts)
              [] m.rule = "sub_pattern" ->
                   LET r == SubPattern_from_pair(m)
                   IN  IF ~r.ok THEN r
                       ELSE alternatives_loop(Tail(inner), Append(alts, r.val))
              [] OTHER ->
                   LET r == single_from_pair(m, Tail(inner))
                   IN  IF ~r.res.ok THEN r.res
                       ELSE alternatives_loop(r.rest, Append(alts, r.res.val))

Alternatives_from_pair(pair) == alternatives_loop(pair.inner, <<>>)

single_from_pair(pair, inner) ==
    CASE pair.rule = "alternatives" -> [res |-> Alternatives_from_pair(pair), rest |-> inner]
      [] pair.rule \in {"group", "literals", "char_set"} -> Quantified_from_pair(pair, inner)
      [] pair.rule = "zero_width_literal" -> [res |-> zwl_from_pair(pair), rest |-> inner]
      [] pair.rule = "comment_group" -> [res |-> comment_group_from_pair(pair), rest |-> inner]
      [] OTHER -> [res |-> Err(unexpected_input(pair)), rest |-> inner]

SubPattern_from_pair(pair) ==
    IF pair.inner # <<>> THEN single_from_pair(Head(pair.inner), Tail(pair.inner)).res
    ELSE Err(unexpected_eoi(pair.col))

\* the while loop of Pat::from_pair
RECURSIVE pat_loop(_, _, _)
pat_loop(inner, flags, sub_patterns) ==
    IF inner = <<>> THEN Ok([kind |-> "Pat", flags |-> flags, sub_patterns |-> sub_patterns])
    ELSE LET matched == Head(inner)
         IN CASE matched.rule = "sub_pattern" ->
                   LET r == SubPattern_from_pair(matched)
                   IN  IF ~r.ok THEN r
                       ELSE pat_loop(Tail(inner), flags, Append(sub_patterns, r.val))
              [] matched.rule = "whole_pattern_flags" ->
                   LET parsed_flags == from_whole_pattern_pair(matched)
                   IN  IF ~parsed_flags.ok THEN parsed_flags
                       ELSE pat_loop(Tail(inner), parsed_flags.val, sub_patterns)
              [] OTHER -> Err(unexpected_input(matched))

Pat_from_pair(pair) == pat_loop(pair.inner, GroupFlags_empty, <<>>)

Pattern_from_pair(pair) == Pat_from_pair(pair)

(***************************************************************************)
(* as_string                                                               *)
(***************************************************************************)
\* format!/write! of the parts in order; a panic in any part ends the call
cat(parts) == IF \E i \in 1..Len(parts) : parts[i] = Panic THEN Panic ELSE Concat(parts)

GroupExt_as_string(ext) ==
    CASE ext = "NonCapturing" -> <<"?", ":">>
      [] ext = "Atomic" -> <<"?", ">">>
      [] ext = "PosLookahead" -> <<"?", "=">>
      [] ext = "NegLookahead" -> <<"?", "!">>
      [] ext = "PosLookbehind" -> <<"?", "<", "=">>
      [] ext = "NegLookbehind" -> <<"?", "<", "!">>

TernaryGroupId_as_string(id) ==
    IF id.kind = "Numbered" THEN to_string(id.n) ELSE id.name

RECURSIVE SubPattern_as_string(_)
RECURSIVE Group_as_string(_)
RECURSIVE Alternatives_as_string(_)
RECURSIVE Quantified_as_string(_)

\* the components' strings, written one after the other
components_as_string(cs) == cat([i \in 1..Len(cs) |-> SubPattern_as_string(cs[i])])

Group_as_string(g) ==
    CASE g.kind = "NamedBackref" -> <<"(", "?", "P", "=">> \o g.name \o <<")">>
      [] g.kind = "Ternary" /\ ~is_some(g.no_pat) ->
           cat(<< <<"(", "?", "(">>, TernaryGroupId_as_string(g.group_id), <<")">>,
                  SubPattern_as_string(g.yes_pat), <<")">> >>)
      [] g.kind = "Ternary" /\ is_some(g.no_pat) ->
           cat(<< <<"(", "?", "(">>, TernaryGroupId_as_string(g.group_id), <<")">>,
                  SubPattern_as_string(g.yes_pat), <<"|">>,
                  SubPattern_as_string(unwrap(g.no_pat)), <<")">> >>)
      [] g.kind = "Group" /\ is_some(g.ext) /\ ~is_some(g.name) ->
           cat(<< <<"(", "?">>, GroupExt_as_string(unwrap(g.ext)),
                  components_as_string(g.components), <<")">> >>)
      [] g.kind = "Group" /\ ~is_some(g.ext) /\ is_some(g.name) ->
           cat(<< <<"(", "?", "P", "<">>, unwrap(g.name), <<">">>,
                  components_as_string(g.components), <<")">> >>)
      [] OTHER -> Panic

Quantifiable_as_string(q) ==
    IF q.kind \in {"Literal", "CharSet"} THEN Element_as_string(q) ELSE Group_as_string(q)

Quantified_as_string(qd) ==
    IF is_some(qd.quantifier)
    THEN cat(<<Quantifiable_as_string(qd.quantifiable),
               Quantifier_as_string(unwrap(qd.quantifier))>>)
    ELSE Quantifiable_as_string(qd.quantifiable)

\* the while loop of Alternatives::as_string over the alternatives after the
\* first; ix counts them from 0 and cl is the number of all alternatives
RECURSIVE alternatives_tail(_, _, _)
alternatives_tail(rest, ix, cl) ==
    IF rest = <<>> THEN <<>>
    ELSE cat(<<SubPattern_as_string(Head(rest)),
               IF ix + 1 >= cl THEN <<>> ELSE <<"|">>,
               alternatives_tail(Tail(rest), ix + 1, cl)>>)

Alternatives_as_string(a) ==
    IF a.alts = <<>> THEN Panic
    ELSE cat(<<SubPattern_as_string(Head(a.alts)), <<"|">>,
               alternatives_tail(Tail(a.alts), 0, Len(a.alts))>>)

SubPattern_as_string(sp) ==
    CASE sp.kind = "Alternatives" -> Alternatives_as_string(sp)
      [] sp.kind = "Quantified" -> Quantified_as_string(sp)
      [] sp.kind = "ZeroWidthLiteral" -> ZeroWidthLiteral_as_string(sp.zwl)
      [] sp.kind = "Comment" -> <<"(", "?", "#">> \o sp.comment \o <<")">>

Pat_as_string(p) ==
    cat(<<IF GroupFlags_is_empty(p.flags) THEN <<>>
          ELSE <<"(">> \o GroupFlags_as_string(p.flags) \o <<")">>,
          components_as_string(p.sub_patterns)>>)

Pattern_as_string(p) ==
    IF p.kind = "Pat" THEN Pat_as_string(p) ELSE SubPattern_as_string(p.sp)

(***************************************************************************)
(* is_finite and min_match_len                                             *)
(***************************************************************************)
RECURSIVE SubPattern_is_finite(_)
RECURSIVE SubPattern_min_match_len(_)

Quantified_is_finite(qd) ==
    IF is_some(qd.quantifier) THEN Quantifier_is_finite(unwrap(qd.quantifier)) ELSE TRUE

Alternatives_is_finite(a) == \A i \in 1..Len(a.alts) : SubPattern_is_finite(a.alts[i])

Group_is_finite(g) ==
    CASE g.kind = "NamedBackref" -> TRUE
      [] g.kind = "Ternary" ->
           /\ SubPattern_is_finite(g.yes_pat)
           /\ (is_some(g.no_pat) => SubPattern_is_finite(unwrap(g.no_pat)))
      [] g.kind = "Group" ->
           \A i \in 1..Len(g.components) : SubPattern_is_finite(g.components[i])

SubPattern_is_finite(sp) ==
    CASE sp.kind = "Alternatives" -> Alternatives_is_finite(sp)
      [] sp.kind = "Quantified" -> Quantified_is_finite(sp)
      [] OTHER -> TRUE

Pat_is_finite(p) == \A i \in 1..Len(p.sub_patterns) : SubPattern_is_finite(p.sub_patterns[i])

Pattern_is_finite(p) ==
    IF p.kind = "Pat" THEN Pat_is_finite(p) ELSE SubPattern_is_finite(p.sp)

\* usize::MAX, 2^64 - 1 on the usual build, kept here at 2^31 - 1; only an
\* Alternatives without alternatives yields it
usize_MAX == 2147483647

RECURSIVE sum_min_match_len(_)
sum_min_match_len(cs) ==
    IF cs = <<>> THEN 0
    ELSE SubPattern_min_match_len(Head(cs)) + sum_min_match_len(Tail(cs))

\* the for loop of Alternatives::min_match_len
RECURSIVE alternatives_min_loop(_, _)
alternatives_min_loop(rest, min) ==
    IF rest = <<>> THEN min
    ELSE LET mml == SubPattern_min_match_len(Head(rest))
         IN  alternatives_min_loop(Tail(rest), IF mml < min THEN mml ELSE min)

\* a wrong reading of Alternatives::min_match_len that C7 rules out: the
\* first alternative decides
Alternatives_first_match_len(a) ==
    IF a.alts = <<>> THEN usize_MAX ELSE SubPattern_min_match_len(a.alts[1])

Alternatives_min_match_len(a) == alternatives_min_loop(a.alts, usize_MAX)

\* a wrong reading of min_match_len that C25 rules out: a non-capturing
\* group sums its components like any other group
Group_min_match_len_summing(g) ==
    CASE g.kind = "NamedBackref" -> 0
      [] g.kind = "Ternary" -> SubPattern_min_match_len(g.yes_pat)
      [] g.kind = "Group" -> sum_min_match_len(g.components)

Group_min_match_len(g) ==
    CASE g.kind = "NamedBackref" -> 0
      [] g.kind = "Ternary" -> SubPattern_min_match_len(g.yes_pat)
      [] g.kind = "Group" /\ g.ext = Some("NonCapturing") -> 0
      [] g.kind = "Group" -> sum_min_match_len(g.components)

Quantifiable_min_match_len(q) ==
    IF q.kind \in {"Literal", "CharSet"} THEN Element_min_match_len(q)
    ELSE Group_min_match_len(q)

Quantified_min_match_len(qd) ==
    Quantifiable_min_match_len(qd.quantifiable)
        * (IF is_some(qd.quantifier) THEN min_len_multiplier(unwrap(qd.quantifier)) ELSE 1)

SubPattern_min_match_len(sp) ==
    CASE sp.kind = "Alternatives" -> Alternatives_min_match_len(sp)
      [] sp.kind = "Quantified" -> Quantified_min_match_len(sp)
      [] sp.kind = "ZeroWidthLiteral" -> 0
      [] sp.kind = "Comment" -> 0

Pat_min_match_len(p) == sum_min_match_len(p.sub_patterns)

Pattern_min_match_len(p) ==
    IF p.kind = "Pat" THEN Pat_min_match_len(p) ELSE SubPattern_min_match_len(p.sp)

(***************************************************************************)
(* Capture groups: counting, nth_group, group indices                      *)
(***************************************************************************)
is_indexed(g) == g.kind = "Group" /\ ~is_some(g.ext)

IsGroup(q) == q.kind \in {"NamedBackref", "Ternary", "Group"}

Sub(sp) == [kind |-> "Sub", sp |-> sp]

RECURSIVE SubPattern_groups_count(_)
RECURSIVE SubPattern_nth_group(_, _)

RECURSIVE sum_groups_count(_)
sum_groups_count(cs) ==
    IF cs = <<>> THEN 0
    ELSE SubPattern_groups_count(Head(cs)) + sum_groups_count(Tail(cs))

\* a capturing group counts 1 plus its children, any other group its children
Group_groups_count(g) ==
    CASE g.kind = "NamedBackref" -> 0
      [] g.kind = "Ternary" ->
           SubPattern_groups_count(g.yes_pat)
               + (IF is_some(g.no_pat) THEN SubPattern_groups_count(unwrap(g.no_pat)) ELSE 0)
      [] g.kind = "Group" ->
           (IF is_indexed(g) THEN 1 ELSE 0) + sum_groups_count(g.components)

Quantified_groups_count(qd) ==
    IF IsGroup(qd.quantifiable) THEN Group_groups_count(qd.quantifiable) ELSE 0

Alternatives_groups_count(a) == sum_groups_count(a.alts)

SubPattern_groups_count(sp) ==
    CASE sp.kind \in {"ZeroWidthLiteral", "Comment"} -> 0
      [] sp.kind = "Alternatives" -> Alternatives_groups_count(sp)
      [] sp.kind = "Quantified" -> Quantified_groups_count(sp)

Pattern_groups_count(p) ==
    IF p.kind = "Pat" THEN sum_groups_count(p.sub_patterns)
    ELSE SubPattern_groups_count(p.sp)

\* the while loops of Pat::nth_group and Alternatives::nth_group: the first
\* sub-pattern that answers nth_group(n), each asked with the same n
RECURSIVE first_nth_group(_, _)
first_nth_group(sps, n) ==
    IF sps = <<>> THEN None
    ELSE LET ng == SubPattern_nth_group(Head(sps), n)
         IN  IF is_some(ng) THEN ng ELSE first_nth_group(Tail(sps), n)

\* a capturing group answers 1 with itself and hands n - 1 to its components;
\* any other group hands n on
Group_nth_group(qd, n) ==
    LET g == qd.quantifiable
    IN CASE g.kind = "NamedBackref" -> None
         [] g.kind = "Ternary" ->
              first_nth_group(<<g.yes_pat>> \o (IF is_some(g.no_pat) THEN <<unwrap(g.no_pat)>>
                                                 ELSE <<>>), n)
         [] g.kind = "Group" /\ is_indexed(g) ->
              IF n = 1 THEN Some(Sub(qd)) ELSE first_nth_group(g.components, n - 1)
         [] g.kind = "Group" -> first_nth_group(g.components, n)

Quantified_nth_group(qd, n) ==
    IF n = 0 THEN Some(Sub(qd))
    ELSE IF IsGroup(qd.quantifiable) THEN Group_nth_group(qd, n) ELSE None

Alternatives_nth_group(a, n) ==
    IF n = 0 THEN Some(Sub(a)) ELSE first_nth_group(a.alts, n)

SubPattern_nth_group(sp, n) ==
    IF n = 0 THEN Some(Sub(sp))
    ELSE CASE sp.kind = "Alternatives" -> Alternatives_nth_group(sp, n)
           [] sp.kind = "Quantified" -> Quantified_nth_group(sp, n)
           [] OTHER -> None

Pat_nth_group(p, n) ==
    IF n = 0 THEN Some(p) ELSE first_nth_group(p.sub_patterns, n)

Pattern_nth_group(p, n) ==
    IF n = 0 THEN Some(p)
    ELSE IF p.kind = "Pat" THEN Pat_nth_group(p, n) ELSE SubPattern_nth_group(p.sp, n)

\* Pattern::sub_patterns, the sub-patterns GroupIndices::new starts from
Pattern_sub_patterns(p) == IF p.kind = "Pat" THEN p.sub_patterns ELSE <<p.sp>>

\* a sub-pattern that is a general group, the SubPattern::Group(Group::Group)
\* arm of collect_component_groups
IsGeneralGroup(c) == c.kind = "Quantified" /\ c.quantifiable.kind = "Group"

\* [named, indexed] after the for loop over cs; named is a set of
\* <<name, sub-pattern>> with one entry per name, the last insert
RECURSIVE collect_component_groups(_, _)
collect_component_groups(acc, cs) ==
    IF cs = <<>> THEN acc
    ELSE LET c == Head(cs)
         IN  IF IsGeneralGroup(c) /\ c.quantifiable.ext # Some("NonCapturing")
             THEN LET g == c.quantifiable
                      named == IF is_some(g.name)
                               THEN {e \in acc.named : e[1] # unwrap(g.name)}
                                        \cup {<<unwrap(g.name), c>>}
                               ELSE acc.named
                      pushed == [named |-> named, indexed |-> Append(acc.indexed, c)]
                  IN  collect_component_groups(
                          collect_component_groups(pushed, g.components), Tail(cs))
             ELSE collect_component_groups(acc, Tail(cs))

GroupIndices_new(pat) ==
    collect_component_groups([named |-> {}, indexed |-> <<>>], Pattern_sub_patterns(pat))

(***************************************************************************)
(* The pattern constructors of the public interface                        *)
(***************************************************************************)
group_from_subpatterns(components, flags, name, ext) ==
    GroupNode(ext, IF is_some(flags) THEN unwrap(flags) ELSE GroupFlags_empty, name,
              components)

subpatterns_to_group(components, flags, name, ext) ==
    Quantified(group_from_subpatterns(components, flags, name, ext), None)

as_group(sp) == subpatterns_to_group(<<sp>>, None, None, None)

into_group(p) ==
    IF p.kind = "Pat"
    THEN Sub(subpatterns_to_group(p.sub_patterns, Some(p.flags), None, None))
    ELSE Sub(as_group(p.sp))

into_subpattern(p) == into_group(p).sp

Pattern_new_group(components, flags, name, ext) ==
    Sub(subpatterns_to_group([i \in 1..Len(components) |-> into_subpattern(components[i])],
                             flags, name, ext))

new_literal(lit, quantifier) == Sub(Quantified([kind |-> "Literal", lit |-> lit], quantifier))

Pattern_quantify(p, quantifier) ==
    Sub([into_subpattern(p) EXCEPT !.quantifier = Some(quantifier)])

\* Alternatives::from_components behind SubPattern::new_alternatives
new_alternatives(components) == [kind |-> "Alternatives", alts |-> components]

\* Alternatives::from_l_r
from_l_r(left, right) == [kind |-> "Alternatives", alts |-> <<left, right>>]

Pattern_new_alternatives(components) ==
    Sub(new_alternatives([i \in 1..Len(components) |-> into_subpattern(components[i])]))

Pattern_alternate_with(p, other) ==
    Sub(new_alternatives(<<into_subpattern(p), into_subpattern(other)>>))

Pattern_follow_with(p, other) == Pattern_new_group(<<p, other>>, None, None, None)

\* Flags::has_neg
Flags_has_neg(flags) == flags.neg # <<>>

\* a wrong reading of with_flags that C14 rules out: any flags are taken
Pattern_with_flags_unchecked(p, flags) ==
    Ok([kind |-> "Pat", flags |-> flags,
        sub_patterns |-> IF p.kind = "Sub" THEN <<p.sp>> ELSE p.sub_patterns])

Pattern_with_flags(p, flags) ==
    IF Flags_has_neg(flags) THEN Err([kind |-> "NegativePatternFlags"])
    ELSE Ok(CASE p.kind = "Sub" ->
                   [kind |-> "Pat", flags |-> flags, sub_patterns |-> <<p.sp>>]
              [] p.kind = "Pat" ->
                   [kind |-> "Pat", flags |-> flags, sub_patterns |-> p.sub_patterns])

(***************************************************************************)
(* The pairs the grammar hands over.  A pair has a rule, the text it       *)
(* spans, the column it starts at and its child pairs.                     *)
(***************************************************************************)
Tok(rule, str) == [rule |-> rule, str |-> str, col |-> 0, inner |-> <<>>]

\* a pair whose text is its children's text followed by `tail`
NodeT(rule, inner, tail) ==
    [rule |-> rule, str |-> Concat([i \in 1..Len(inner) |-> inner[i].str]) \o tail,
     col |-> 0, inner |-> inner]

Node(rule, inner) == NodeT(rule, inner, <<>>)

\* the columns of a pair that starts at column col
RECURSIVE Locate(_, _)
Locate(p, col) ==
    [p EXCEPT !.col = col,
              !.inner = [i \in 1..Len(p.inner) |->
                            Locate(p.inner[i],
                                   col + Len(Concat([j \in 1..(i - 1) |-> p.inner[j].str])))]]

\* the pairs of a parse tree
RECURSIVE PairsUnder(_)
PairsUnder(pair) == {pair} \cup UNION {PairsUnder(pair.inner[i]) : i \in DOMAIN pair.inner}

LP == Tok("l_parens", <<"(">>)

RP == Tok("r_parens", <<")">>)

QM == Tok("question_mark", <<"?">>)

PIPE == Tok("pipe", <<"|">>)

SP(x) == Node("sub_pattern", <<x>>)

SPQ(x, q) == Node("sub_pattern", <<x, q>>)

LiteralsPair(s) == Tok("literals", s)

\* greed is <<>>, <<"?">> or <<"+">>
GreedToks(greed) ==
    CASE greed = <<"?">> -> <<QM>>
      [] greed = <<"+">> -> <<Tok("plus", <<"+">>)>>
      [] OTHER -> <<>>

SymbolQuantifierPair(rule, sym, greed) ==
    Node("quantifier", <<Tok(rule, <<sym>>)>> \o GreedToks(greed))

BraceQuantifierPair(rule, body, greed) ==
    Node("quantifier", <<Tok("l_brace", <<"{">>), Tok(rule, body), Tok("r_brace", <<"}">>)>>
                       \o GreedToks(greed))

PlainGroupPair(sps) == Node("group", <<LP>> \o sps \o <<RP>>)

ExtGroupPair(ext_pair, sps) ==
    Node("group", <<LP, Node("group_ext", <<QM, ext_pair>>)>> \o sps \o <<RP>>)

NonCapturingPair(flags) ==
    IF flags = <<>> THEN NodeT("noncapturing", <<>>, <<":">>)
    ELSE NodeT("noncapturing", <<Tok("flags", flags)>>, <<":">>)

NamedPair(name) ==
    Node("named", <<Tok("named_open", <<"P", "<">>), Tok("name", name),
                    Tok("named_close", <<">">>)>>)

NamedBackrefPair(name) ==
    Node("named_backref", <<Tok("backref_open", <<"P", "=">>),
                            Node("group_name", <<Tok("name", name)>>)>>)

\* no is a sequence of at most one sub_pattern pair
TernaryPair(id, yes, no) ==
    Node("ternary", <<Node("ternary_id", <<LP, id>>), RP, yes>>
                    \o (IF no = <<>> THEN <<>> ELSE <<PIPE, no[1]>>))

CommentPair(c) ==
    Node("comment_group", <<LP, QM, Tok("hash", <<"#">>), Tok("comment", c), RP>>)

CharSetPair(items) ==
    Node("char_set", <<Tok("l_sq", <<"[">>)>> \o items \o <<Tok("r_sq", <<"]">>)>>)

CharRangePair(low, high) ==
    Node("char_range", <<Tok("set_literal", <<low>>), Tok("hyphen", <<"-">>),
                         Tok("set_literal", <<high>>)>>)

WholePatternFlagsPair(flags) ==
    Node("whole_pattern_flags", <<Tok("flags_open", <<"(", "?">>), Tok("flags", flags), RP>>)

PatternPair(children) == Locate(Node("pattern", children), 1)

(***************************************************************************)
(* The bounded set of inputs                                               *)
(***************************************************************************)
\* the nesting depth of the inputs
MaxDepth == 2

\* the largest number written in a brace quantifier
MaxN == 2

LitA == SP(LiteralsPair(<<"a">>))

WordBoundary == SP(Tok("zero_width_literal", <<"\\", "b">>))

LeafPairs ==
    { LitA,
      SP(LiteralsPair(<<"b", "b">>)),
      SPQ(LiteralsPair(<<"b">>), SymbolQuantifierPair("asterisk", "*", <<>>)),
      SPQ(LiteralsPair(<<"c">>), BraceQuantifierPair("n_exact", <<"2">>, <<>>)),
      SPQ(CharSetPair(<<CharRangePair("a", "c")>>),
          BraceQuantifierPair("n_at_least", <<"2", ",">>, <<"?">>)),
      WordBoundary,
      SP(Tok("zero_width_literal", <<"\\", "A">>)),
      SP(Tok("zero_width_literal", <<"\\", "a">>)),
      SP(CommentPair(<<"x", "y">>)),
      SP(ExtGroupPair(NamedBackrefPair(<<"n">>), <<>>)) }

IsAlternativesPair(x) == x.inner[1].rule = "alternatives"

\* the constructs that nest to any depth
CoreWraps(x) ==
    { SP(PlainGroupPair(<<x>>)),
      SP(ExtGroupPair(NamedPair(<<"n">>), <<x>>)),
      SP(ExtGroupPair(NonCapturingPair(<<>>), <<x>>)),
      SP(ExtGroupPair(Tok("atomic", <<">">>), <<x>>)),
      SP(ExtGroupPair(Tok("pos_lookahead", <<"=">>), <<x>>)) }
        \cup (IF IsAlternativesPair(x) THEN {}
              ELSE {SP(Node("alternatives", <<LitA, PIPE, x>>))})

\* the remaining constructs, around a leaf
LeafWraps(x) ==
    { SP(PlainGroupPair(<<x, WordBoundary>>)),
      SP(Node("alternatives", x.inner \o <<PIPE, SP(LiteralsPair(<<"b", "b">>))>>)),
      SP(ExtGroupPair(TernaryPair(Tok("numbered_group_id", <<"1">>), x, <<>>), <<>>)),
      SP(ExtGroupPair(TernaryPair(Tok("named_group_id", <<"n">>), x, <<LitA>>), <<>>)),
      SPQ(PlainGroupPair(<<x>>), SymbolQuantifierPair("plus", "+", <<>>)),
      SPQ(ExtGroupPair(NamedPair(<<"m">>), <<x>>),
          BraceQuantifierPair("n_between", <<"0", ",", "2">>, <<>>)),
      SP(ExtGroupPair(NonCapturingPair(<<"i", "-", "m">>), <<x>>)),
      SP(ExtGroupPair(Tok("neg_lookahead", <<"!">>), <<x>>)),
      SP(ExtGroupPair(Tok("pos_lookbehind", <<"<", "=">>), <<x>>)),
      SP(ExtGroupPair(Tok("neg_lookbehind", <<"<", "!">>), <<x>>)) }

Wraps(x) == CoreWraps(x) \cup (IF x \in LeafPairs THEN LeafWraps(x) ELSE {})

RECURSIVE SubPatternPairs(_)
SubPatternPairs(d) ==
    IF d = 0 THEN LeafPairs
    ELSE LET P == SubPatternPairs(d - 1)
         IN  P \cup UNION {Wraps(x) : x \in P}

\* the sub-patterns that stand first in a row of three
ShallowPairs ==
    {x \in SubPatternPairs(1) : ~IsAlternativesPair(x)}
        \cup {SP(PlainGroupPair(<<x>>)) : x \in {y \in SubPatternPairs(1) : IsAlternativesPair(y)}}

\* whole patterns: one sub-pattern, one behind pattern flags, three in a row
PatternPairsOf(x) ==
    { PatternPair(<<x>>),
      PatternPair(<<WholePatternFlagsPair(<<"i">>), x>>) }
        \cup (IF x \in ShallowPairs
              THEN { PatternPair(<<x, SP(ExtGroupPair(NonCapturingPair(<<>>), <<LitA>>)),
                                   SP(ExtGroupPair(NamedPair(<<"x">>), <<LitA>>))>>) }
              ELSE {})

PatternInputs == UNION {PatternPairsOf(x) : x \in SubPatternPairs(MaxDepth)}

\* one quantified sub-pattern: every shape of quantifier on a few payloads
\* the numbers written in braces: the small ones and one of two digits
Numerals == {to_string(n) : n \in 0..MaxN} \cup {<<"1", "0">>}

Greeds == {<<>>, <<"?">>, <<"+">>}

QuantifierPairs ==
    UNION { { SymbolQuantifierPair("question_mark", "?", g),
              SymbolQuantifierPair("asterisk", "*", g),
              SymbolQuantifierPair("plus", "+", g) }
            \cup {BraceQuantifierPair("n_exact", n, g) : n \in Numerals}
            \cup {BraceQuantifierPair("n_at_least", n \o <<",">>, g) : n \in Numerals}
            \cup {BraceQuantifierPair("n_at_most", <<",">> \o n, g) : n \in Numerals}
            \cup {BraceQuantifierPair("n_between", m \o <<",">> \o n, g) :
                      m \in Numerals, n \in Numerals}
          : g \in Greeds }

Payloads ==
    { LiteralsPair(<<"a", "b">>),
      CharSetPair(<<CharRangePair("a", "c")>>),
      PlainGroupPair(<<SP(LiteralsPair(<<"a", "b">>)), LitA>>),
      ExtGroupPair(NamedPair(<<"n">>), <<LitA>>),
      ExtGroupPair(NonCapturingPair(<<>>), <<LitA>>) }

QuantifiedInputs == {PatternPair(<<SPQ(x, q)>>) : x \in Payloads, q \in QuantifierPairs}

\* the quantifiers a caller makes of a parsed one with set_quantifier and
\* set_greed
CallerQuantifiers ==
    { set_greed(set_quantifier(Quantifier_new(ZeroOrOne), NTimes(None, None)), "Greedy"),
      set_greed(set_quantifier(Quantifier_new(ZeroOrOne), NTimes(None, Some(MaxN))),
                "Possessive"),
      set_greed(Quantifier_new(OneOrMore), "NonGreedy") }

\* flag tokens: up to MaxFlags codes before the dash and up to MaxNegFlags
\* behind it, one code being none of the seven
MaxFlags == 3

MaxNegFlags == 1

FlagCodes == {"a", "i", "L", "m", "q"}

NegFlagCodes == {"i", "m"}

SeqsUpTo(S, n) == UNION {[1..k -> S] : k \in 0..n}

FlagTokens ==
    {pos \o neg : pos \in SeqsUpTo(FlagCodes, MaxFlags),
                  neg \in {<<>>} \cup {<<"-">> \o t : t \in SeqsUpTo(NegFlagCodes, MaxNegFlags) \ {<<>>}}}

\* a non-capturing group with group flags, or a literal behind pattern flags
FlagInputs ==
    {PatternPair(<<SP(ExtGroupPair(NonCapturingPair(t), <<LitA>>))>>) : t \in FlagTokens}
        \cup {PatternPair(<<WholePatternFlagsPair(t), LitA>>) :
                  t \in SeqsUpTo(FlagCodes, MaxFlags) \ {<<>>}}

\* the flags a caller hands to with_flags
CallerFlags ==
    { GroupFlags_empty,
      [pos |-> <<"Ignorecase">>, neg |-> <<>>],
      [pos |-> <<"Ignorecase">>, neg |-> <<"Multiline">>],
      [pos |-> <<>>, neg |-> <<"Ignorecase">>] }

\* bracket expressions: up to MaxItems members, ranges with the low bound
\* above the high bound and escapes that name no class among them
MaxItems == 2

CharClassPair(name) ==
    Node("char_class", <<Tok("backslash", <<"\\">>), Tok("class_name", <<name>>)>>)

SetItems ==
    {CharRangePair(low, high) : low \in {"a", "c", "z"}, high \in {"a", "c", "z"}}
        \cup {Tok("set_literal", <<"b">>)}
        \cup {CharClassPair(name) : name \in {"d", "W", "q"}}

CharSetInputs ==
    {PatternPair(<<SP(CharSetPair(neg \o items))>>) :
         neg \in {<<>>, <<Tok("set_negation", <<"^">>)>>},
         items \in SeqsUpTo(SetItems, MaxItems) \ {<<>>}}

\* inputs with parts that fail to build: an assertion that is none, a
\* predefined class in brackets, a flag that is none; two levels of nesting
FailingLeaves ==
    { LitA,
      SP(Tok("zero_width_literal", <<"\\", "q">>)),
      SP(CharSetPair(<<CharClassPair("d")>>)) }

PairWraps(x, y) ==
    { SP(PlainGroupPair(<<x, y>>)),
      SP(Node("alternatives", <<x, PIPE, y>>)),
      SP(ExtGroupPair(TernaryPair(Tok("named_group_id", <<"n">>), x, <<y>>), <<>>)),
      SP(ExtGroupPair(NonCapturingPair(<<"i">>), <<x, y>>)),
      SP(ExtGroupPair(NonCapturingPair(<<"q">>), <<x, y>>)) }

FailingLevel1 == UNION {PairWraps(x, y) : x \in FailingLeaves, y \in FailingLeaves}

FailingLevel2 ==
    UNION {PairWraps(x, y) \cup PairWraps(y, x) : x \in FailingLevel1, y \in FailingLeaves}

FailingInputs ==
    UNION { { PatternPair(<<x>>),
              PatternPair(<<WholePatternFlagsPair(<<"i">>), x>>),
              PatternPair(<<WholePatternFlagsPair(<<"q">>), x>>) }
            \cup {PatternPair(<<x, y>>) : y \in FailingLeaves}
            : x \in FailingLeaves \cup FailingLevel1 \cup FailingLevel2 }

\* the pairs a builder function may be handed: every pair of the shallow
\* patterns, and pairs without children
ChildlessPairs ==
    {[Tok(r, <<>>) EXCEPT !.col = 1] : r \in {"sub_pattern", "group", "quantifier", "char_set"}}

DispatchPairs ==
    UNION {PairsUnder(PatternPair(<<x>>)) : x \in SubPatternPairs(1)} \cup ChildlessPairs

\* the builder functions that take one pair
Builders ==
    { "Element::from_pair", "Element::charset_from_pair", "Literal::from_pair",
      "CharSet::from_pair", "CharClass::from_pair", "Quantifier::from_pair",
      "Quantified::from_pair", "SubPattern::single_from_pair", "SubPattern::from_pair" }

\* rows of sibling pairs, the children of one pair: something that takes a
\* quantifier, and up to MaxSiblings pairs behind it
MaxSiblings == 2

RowHeads ==
    { LiteralsPair(<<"a">>),
      CharSetPair(<<CharRangePair("a", "c")>>),
      PlainGroupPair(<<LitA>>),
      ExtGroupPair(NamedBackrefPair(<<"n">>), <<>>) }

RowSiblings ==
    { SymbolQuantifierPair("asterisk", "*", <<"?">>),
      BraceQuantifierPair("n_between", <<"1", ",", "2">>, <<>>),
      BraceQuantifierPair("n_exact", <<"x">>, <<>>),
      LiteralsPair(<<"b">>),
      PIPE,
      LitA }

SiblingRows ==
    {Locate(Node("sub_pattern", <<h>> \o t), 1) :
         h \in RowHeads, t \in SeqsUpTo(RowSiblings, MaxSiblings)}

\* ternary groups, whole and cut short behind any of their parts
TernaryIds ==
    { <<Node("ternary_id", <<LP, Tok("numbered_group_id", <<"1">>)>>)>>,
      <<Node("ternary_id", <<LP, Tok("named_group_id", <<"n">>)>>)>>,
      <<Node("ternary_id", <<LP, Tok("name", <<"n">>)>>)>>,
      <<Node("ternary_id", <<LP>>)>>,
      <<>> }

TernaryBranches ==
    { LitA, WordBoundary, SP(PlainGroupPair(<<LitA>>)),
      SP(Tok("zero_width_literal", <<"\\", "q">>)) }

TernaryTails ==
    {<<>>, <<RP>>}
        \cup {<<RP, yes>> : yes \in TernaryBranches}
        \cup {<<RP, yes, PIPE>> : yes \in TernaryBranches}
        \cup {<<RP, yes, PIPE, no>> : yes \in TernaryBranches, no \in TernaryBranches}

TernaryInputs ==
    UNION { {PatternPair(<<SP(ExtGroupPair(Node("ternary", id \o tail), <<>>))>>) :
                 tail \in IF id = <<>> THEN {<<>>} ELSE TernaryTails}
            : id \in TernaryIds }

\* the patterns a caller starts from, and the arguments of new_group
StartPatterns ==
    { new_literal(<<"a">>, None),
      new_literal(<<"b", "b">>, Some(Quantifier_new(ZeroOrMore))),
      new_literal(<<"é", "a">>, None) }

\* the longest list of components a caller hands to new_alternatives
MaxAlts == 2

\* the number of calls to the pattern constructors in one run
MaxOps == 2

NoInput == PatternPair(<<>>)

(***************************************************************************)
(* The state machine: a pattern is handed over, built, and queried         *)
(***************************************************************************)
Built == pattern # None /\ pattern[1].ok

Init ==
    /\ input \in PatternInputs
    /\ phase = "parsed"
    /\ pattern = None
    /\ text = None
    /\ indices = None
    /\ ops = 0

\* Pattern::from_pair
Build ==
    /\ phase = "parsed"
    /\ pattern' = Some(Pattern_from_pair(input))
    /\ phase' = "built"
    /\ UNCHANGED <<input, text, indices, ops>>

\* Pattern::as_string
AsString ==
    /\ Built
    /\ text = None
    /\ text' = Some(Pattern_as_string(pattern[1].val))
    /\ UNCHANGED <<input, phase, pattern, indices, ops>>

\* GroupIndices::new
Index ==
    /\ Built
    /\ indices = None
    /\ indices' = Some(GroupIndices_new(pattern[1].val))
    /\ UNCHANGED <<input, phase, pattern, text, ops>>

\* a constructor call makes a new pattern of the current one
Constructed(p) ==
    /\ Built
    /\ ops < MaxOps
    /\ pattern' = Some(Ok(p))
    /\ ops' = ops + 1
    /\ text' = None
    /\ indices' = None
    /\ UNCHANGED <<input, phase>>

\* Pattern::new_group
NewGroup ==
    \E flags \in {None, Some([pos |-> <<"Ignorecase">>, neg |-> <<>>])},
       name \in {None, Some(<<"n">>)},
       ext \in {None, Some("NonCapturing"), Some("Atomic")} :
        Constructed(Pattern_new_group(<<pattern[1].val>>, flags, name, ext))

\* Pattern::quantify
Quantify ==
    \E q \in CallerQuantifiers : Constructed(Pattern_quantify(pattern[1].val, q))

Next == Build \/ AsString \/ Index

Spec == Init /\ [][Next]_vars

\* quantified sub-patterns, parsed and then requantified by the caller
InitQuantified ==
    /\ input \in QuantifiedInputs
    /\ phase = "parsed"
    /\ pattern = None
    /\ text = None
    /\ indices = None
    /\ ops = 0

NextQuantified == Build \/ Quantify \/ AsString

SpecQuantified == InitQuantified /\ [][NextQuantified]_vars

\* patterns made by the caller with the constructors
InitApi ==
    /\ input = NoInput
    /\ phase = "built"
    /\ pattern \in {Some(Ok(p)) : p \in StartPatterns}
    /\ text = None
    /\ indices = None
    /\ ops = 0

NextApi == NewGroup \/ AsString \/ Index

SpecApi == InitApi /\ [][NextApi]_vars

\* the pattern combinators, called on the current pattern and a second one
Operands == StartPatterns \cup {pattern[1].val}

\* Pattern::new_alternatives
NewAlternatives ==
    \E components \in SeqsUpTo(Operands, MaxAlts) :
        Constructed(Pattern_new_alternatives(components))

\* Pattern::alternate_with
AlternateWith == \E b \in Operands : Constructed(Pattern_alternate_with(pattern[1].val, b))

\* Pattern::follow_with
FollowWith == \E b \in Operands : Constructed(Pattern_follow_with(pattern[1].val, b))

NextCombine == NewAlternatives \/ AlternateWith \/ FollowWith \/ Quantify \/ AsString

SpecCombine == InitApi /\ [][NextCombine]_vars

\* Quantified::from_pair on the first pair of a row; input keeps what is
\* left on the iterator of siblings
InitSiblings ==
    /\ input \in SiblingRows
    /\ phase = "parsed"
    /\ pattern = None
    /\ text = None
    /\ indices = None
    /\ ops = 0

QuantifiedFromPair ==
    /\ phase = "parsed"
    /\ LET r == Quantified_from_pair(Head(input.inner), Tail(input.inner))
       IN  /\ pattern' = Some(r.res)
           /\ input' = [input EXCEPT !.inner = r.rest]
    /\ phase' = "built"
    /\ UNCHANGED <<text, indices, ops>>

NextSiblings == QuantifiedFromPair

SpecSiblings == InitSiblings /\ [][NextSiblings]_vars

\* ternary groups, built and rendered
InitTernary ==
    /\ input \in TernaryInputs
    /\ phase = "parsed"
    /\ pattern = None
    /\ text = None
    /\ indices = None
    /\ ops = 0

NextTernary == Build \/ AsString

SpecTernary == InitTernary /\ [][NextTernary]_vars

\* a builder function is called on a pair
from_pair(b, pair) ==
    CASE b = "Element::from_pair" -> Element_from_pair(pair)
      [] b = "Element::charset_from_pair" -> charset_from_pair(pair)
      [] b = "Literal::from_pair" -> Literal_from_pair(pair)
      [] b = "CharSet::from_pair" -> CharSet_from_pair(pair)
      [] b = "CharClass::from_pair" -> CharClass_from_pair(pair)
      [] b = "Quantifier::from_pair" -> Quantifier_from_pair(pair)
      [] b = "Quantified::from_pair" -> Quantified_from_pair(pair, <<>>).res
      [] b = "SubPattern::single_from_pair" -> single_from_pair(pair, <<>>).res
      [] b = "SubPattern::from_pair" -> SubPattern_from_pair(pair)

InitDispatch ==
    /\ input \in DispatchPairs
    /\ phase = "parsed"
    /\ pattern = None
    /\ text = None
    /\ indices = None
    /\ ops = 0

FromPair(b) ==
    /\ phase = "parsed"
    /\ pattern' = Some(from_pair(b, input))
    /\ phase' = "built"
    /\ UNCHANGED <<input, text, indices, ops>>

Dispatch == \E b \in Builders : FromPair(b)

NextDispatch == Dispatch

SpecDispatch == InitDispatch /\ [][NextDispatch]_vars

\* bracket expressions, built and rendered
InitCharSet ==
    /\ input \in CharSetInputs
    /\ phase = "parsed"
    /\ pattern = None
    /\ text = None
    /\ indices = None
    /\ ops = 0

NextCharSet == Build \/ AsString

SpecCharSet == InitCharSet /\ [][NextCharSet]_vars

\* inputs with failing parts, built
InitFailing ==
    /\ input \in FailingInputs
    /\ phase = "parsed"
    /\ pattern = None
    /\ text = None
    /\ indices = None
    /\ ops = 0

NextFailing == Build \/ Index

SpecFailing == InitFailing /\ [][NextFailing]_vars

\* flags: a group or a pattern with flags is built, the group flags are
\* rendered, and the caller sets pattern flags, once in a run
InitFlags ==
    /\ \/ /\ input \in FlagInputs
          /\ phase = "parsed"
          /\ pattern = None
       \/ /\ input = NoInput
          /\ phase = "built"
          /\ pattern \in {Some(Ok(p)) : p \in StartPatterns}
    /\ text = None
    /\ indices = None
    /\ ops = 0

TopGroups ==
    {n \in {Pattern_sub_patterns(pattern[1].val)[i] :
                 i \in DOMAIN Pattern_sub_patterns(pattern[1].val)} :
         n.kind = "Quantified" /\ n.quantifiable.kind = "Group"}

\* GroupFlags::as_string on the flags of a built group
RenderFlags ==
    /\ Built
    /\ text = None
    /\ \E n \in TopGroups : text' = Some(GroupFlags_as_string(n.quantifiable.flags))
    /\ UNCHANGED <<input, phase, pattern, indices, ops>>

\* Pattern::with_flags
WithFlagsOf(flags) ==
    /\ Built
    /\ ops = 0
    /\ pattern' = Some(Pattern_with_flags(pattern[1].val, flags))
    /\ ops' = 1
    /\ text' = None
    /\ UNCHANGED <<input, phase, indices>>

WithFlags == \E flags \in CallerFlags : WithFlagsOf(flags)

NextFlags == Build \/ RenderFlags \/ WithFlags

SpecFlags == InitFlags /\ [][NextFlags]_vars

(***************************************************************************)
(* The tree of a built pattern, walked independently of the operations     *)
(* under check.                                                            *)
(***************************************************************************)
Range(f) == {f[i] : i \in DOMAIN f}

\* the sub-patterns directly under a sub-pattern, left to right
Children(sp) ==
    CASE sp.kind = "Alternatives" -> sp.alts
      [] sp.kind = "Quantified" /\ sp.quantifiable.kind = "Group" ->
           sp.quantifiable.components
      [] sp.kind = "Quantified" /\ sp.quantifiable.kind = "Ternary" ->
           <<sp.quantifiable.yes_pat>>
               \o (IF is_some(sp.quantifiable.no_pat)
                   THEN <<unwrap(sp.quantifiable.no_pat)>> ELSE <<>>)
      [] OTHER -> <<>>

\* a sub-pattern and everything under it, in document pre-order
RECURSIVE Preorder(_)
RECURSIVE PreorderAll(_)
Preorder(sp) == <<sp>> \o PreorderAll(Children(sp))

PreorderAll(sps) ==
    IF sps = <<>> THEN <<>> ELSE Preorder(Head(sps)) \o PreorderAll(Tail(sps))

PatternPreorder(p) == PreorderAll(Pattern_sub_patterns(p))

PatternNodes(p) == Range(PatternPreorder(p))

IsCapturing(sp) == sp.kind = "Quantified" /\ is_indexed(sp.quantifiable)

\* the capturing groups of a pattern in document pre-order
CapturingGroups(p) == SelectSeq(PatternPreorder(p), IsCapturing)

\* the sub-patterns of a group that carry a quantifier, at any depth
IsGroupNode(sp) == sp.kind = "Quantified" /\ IsGroup(sp.quantifiable)

InsideGroups(p) ==
    UNION {Range(PreorderAll(Children(g))) : g \in {n \in PatternNodes(p) : IsGroupNode(n)}}

Unbounded(sp) ==
    /\ sp.kind = "Quantified"
    /\ is_some(sp.quantifier)
    /\ unwrap(sp.quantifier).quantifier.kind \in {"ZeroOrMore", "OneOrMore", "NTimes"}
    /\ unwrap(sp.quantifier).quantifier.kind = "NTimes"
           => ~is_some(unwrap(sp.quantifier).quantifier.max)

\* building a text again: the parser, missing from the sources, gives the
\* parse tree of a text of the grammar and a parsing error for any other text
ParseTrees(s) == {p \in PatternInputs : p.str = s}

Reparse(s) ==
    IF ParseTrees(s) = {} THEN Err([kind |-> "ParsingError"])
    ELSE Pattern_from_pair(CHOOSE p \in ParseTrees(s) : TRUE)

Rendered == Built /\ text # None

(***************************************************************************)
(* Serialisation.                                                          *)
(***************************************************************************)
\* C1: building the text that as_string returns for a built tree gives a
\* tree structurally equal to that tree.
C1_RoundTrip ==
    Rendered => /\ text[1] # Panic
                /\ Reparse(text[1]) = Ok(pattern[1].val)

\* C2: as_string returns a string for every tree the builder returned Ok,
\* a plain numbered capturing group included; it never panics.
C2_AsStringTotal == Rendered => text[1] # Panic

\* the text the format of a group kind gives for components rendering to C
GroupFormats(g) ==
    CASE g.kind = "NamedBackref" -> <<"(", "?", "P", "=">> \o g.name \o <<")">>
      [] g.kind = "Ternary" ->
           cat(<< <<"(", "?", "(">>, TernaryGroupId_as_string(g.group_id), <<")">>,
                  SubPattern_as_string(g.yes_pat),
                  IF is_some(g.no_pat)
                  THEN cat(<< <<"|">>, SubPattern_as_string(unwrap(g.no_pat)) >>)
                  ELSE <<>>,
                  <<")">> >>)
      [] g.kind = "Group" ->
           LET C == components_as_string(g.components)
               open == CASE g.ext = Some("NonCapturing") -> <<"(", "?", ":">>
                         [] g.ext = Some("Atomic") -> <<"(", "?", ">">>
                         [] g.ext = Some("PosLookahead") -> <<"(", "?", "=">>
                         [] g.ext = Some("NegLookahead") -> <<"(", "?", "!">>
                         [] g.ext = Some("PosLookbehind") -> <<"(", "?", "<", "=">>
                         [] g.ext = Some("NegLookbehind") -> <<"(", "?", "<", "!">>
                         [] g.ext = None /\ is_some(g.name) ->
                              <<"(", "?", "P", "<">> \o unwrap(g.name) \o <<">">>
                         [] OTHER -> <<"(">>
           IN  cat(<<open, C, <<")">> >>)

\* the groups of the pattern the claim names a format for, whose parts render
FormattedGroups(p) ==
    {n.quantifiable : n \in {m \in PatternNodes(p) :
         /\ IsGroupNode(m)
         /\ ~IsCapturing(m) \/ is_some(m.quantifiable.name)
         /\ GroupFormats(m.quantifiable) # Panic}}

\* C3: every group renders in the format of its kind: (?:C), (?>C), (?=C),
\* (?!C), (?<=C), (?<!C), (?P<name>C), (?P=name), (?(id)yes|no), (?(id)yes).
C3_GroupFormat ==
    Rendered => \A g \in FormattedGroups(pattern[1].val) :
                    Group_as_string(g) = GroupFormats(g)

\* C4: a pattern that is_finite calls finite has no unbounded quantifier
\* (*, +, {m,}) on any sub-pattern at any depth inside a group.
C4_IsFiniteLooksThroughGroups ==
    Built => (Pattern_is_finite(pattern[1].val)
                 => \A n \in InsideGroups(pattern[1].val) : ~Unbounded(n))

(***************************************************************************)
(* Finiteness and minimal match length.                                    *)
(***************************************************************************)
Top == Range(Pattern_sub_patterns(pattern[1].val))

AllNodes == PatternNodes(pattern[1].val)

QuantifierNodes == {n \in AllNodes : n.kind = "Quantified" /\ is_some(n.quantifier)}

GreedModes == {"Greedy", "NonGreedy", "Possessive"}

BoundedKind(q) ==
    CASE q.kind \in {"ZeroOrOne", "NExact"} -> TRUE
      [] q.kind \in {"ZeroOrMore", "OneOrMore"} -> FALSE
      [] q.kind = "NTimes" -> q.max # None

\* C5: Quantifier::is_finite is true exactly for ZeroOrOne, NExact(n) and
\* NTimes with a max, false for ZeroOrMore, OneOrMore and NTimes without a
\* max, whatever n, min, max and the greediness mode are.
C5_QuantifierIsFinite ==
    Built => \A n \in QuantifierNodes : \A greed \in GreedModes :
                 Quantifier_is_finite(set_greed(unwrap(n.quantifier), greed))
                     = BoundedKind(unwrap(n.quantifier).quantifier)

\* a non-greedy {m,} quantifier has been parsed and one without any bound
\* has been set by the caller
C5_Witness ==
    /\ Built
    /\ \E n \in QuantifierNodes :
           /\ unwrap(n.quantifier).quantifier = NTimes(None, None)
           /\ ~Quantifier_is_finite(unwrap(n.quantifier))
    /\ \E n \in QuantifierNodes :
           /\ unwrap(n.quantifier).quantifier = NTimes(Some(1), None)
           /\ unwrap(n.quantifier).greed = "NonGreedy"
           /\ ~Quantifier_is_finite(unwrap(n.quantifier))

\* the least number of repetitions a quantifier asks for
MinCount(quantifier) ==
    IF quantifier = None THEN 1
    ELSE LET q == unwrap(quantifier).quantifier
         IN CASE q.kind \in {"ZeroOrOne", "ZeroOrMore"} -> 0
              [] q.kind = "OneOrMore" -> 1
              [] q.kind = "NExact" -> q.n
              [] q.kind = "NTimes" -> IF q.min = None THEN 0 ELSE unwrap(q.min)

RepeatedNodes == {n \in AllNodes : n.kind = "Quantified"}

\* C6: min_match_len of a quantified element or group is the payload's
\* min_match_len times the least repetition count of the quantifier: 0 for
\* ZeroOrOne and ZeroOrMore, 1 for OneOrMore, n for NExact(n), min or 0 for
\* NTimes, and 1 without a quantifier.
C6_MinLenMultiplier ==
    Built => \A n \in RepeatedNodes :
                 SubPattern_min_match_len(n)
                     = Quantifiable_min_match_len(n.quantifiable) * MinCount(n.quantifier)

\* a group of minimal length 3 repeated at least twice
C6_Witness ==
    /\ Built
    /\ \E n \in Top :
           /\ n.kind = "Quantified"
           /\ n.quantifiable.kind = "Group"
           /\ Quantifiable_min_match_len(n.quantifiable) = 3
           /\ MinCount(n.quantifier) = 2
           /\ Pattern_min_match_len(pattern[1].val) = 6

RECURSIVE SumOf(_)
SumOf(ns) == IF ns = <<>> THEN 0 ELSE Head(ns) + SumOf(Tail(ns))

Least(S) == CHOOSE m \in S : \A k \in S : m <= k

MinLens(sps) == [i \in DOMAIN sps |-> SubPattern_min_match_len(sps[i])]

\* C7: min_match_len of an alternation is the least min_match_len of its
\* alternatives, min_match_len of a whole pattern is the sum over its
\* top-level sub-patterns, and zero-width assertions and comments give 0.
C7_MinMatchLen ==
    Built =>
        /\ \A n \in AllNodes :
               /\ n.kind = "Alternatives" /\ n.alts # <<>>
                      => SubPattern_min_match_len(n) = Least(Range(MinLens(n.alts)))
               /\ n.kind \in {"ZeroWidthLiteral", "Comment"}
                      => SubPattern_min_match_len(n) = 0
        /\ Pattern_min_match_len(pattern[1].val)
               = SumOf(MinLens(Pattern_sub_patterns(pattern[1].val)))

\* three sub-patterns in a row, the first a group around an alternation whose
\* second alternative is the shorter one, the second a non-capturing group
C7_Witness ==
    /\ Built
    /\ Len(Pattern_sub_patterns(pattern[1].val)) = 3
    /\ \E n \in AllNodes :
           /\ n.kind = "Alternatives"
           /\ Len(n.alts) = 2
           /\ SubPattern_min_match_len(n.alts[2]) < SubPattern_min_match_len(n.alts[1])
    /\ Pattern_min_match_len(pattern[1].val) = 1

(***************************************************************************)
(* Capture groups.                                                         *)
(***************************************************************************)
\* C8: nth_group(0) is the whole pattern, nth_group(k) for k from 1 to
\* groups_count() is the k-th capturing group in document pre-order, and
\* nth_group(n) is nothing exactly when n is above groups_count().
C8_NthGroup ==
    Built =>
        LET p == pattern[1].val
            gs == CapturingGroups(p)
        IN  /\ Pattern_nth_group(p, 0) = Some(p)
            /\ Pattern_groups_count(p) = Len(gs)
            /\ \A k \in 1..Len(gs) : Pattern_nth_group(p, k) = Some(Sub(gs[k]))
            /\ \A n \in (Len(gs) + 1)..(Len(gs) + 2) : Pattern_nth_group(p, n) = None

\* C9: the group index lists exactly the capturing groups (ext = None) in
\* document pre-order, no group with an extension marker is in the indexed
\* list, and every named entry is a group of the indexed list.
C9_GroupIndices ==
    (Built /\ indices # None) =>
        /\ indices[1].indexed = CapturingGroups(pattern[1].val)
        /\ \A g \in Range(indices[1].indexed) : g.quantifiable.ext = None
        /\ \A e \in indices[1].named : e[2] \in Range(indices[1].indexed)

\* C10: no group with both an extension marker and a name is ever
\* constructed, by new_group and group_from_subpatterns either.
C10_NoExtWithName ==
    Built => \A n \in AllNodes :
                 (n.kind = "Quantified" /\ n.quantifiable.kind = "Group")
                     => ~(is_some(n.quantifiable.ext) /\ is_some(n.quantifiable.name))

(***************************************************************************)
(* Flags.                                                                  *)
(***************************************************************************)
AllFlags ==
    {"Ascii", "Ignorecase", "Locale", "Multiline", "Dotall", "Unicode", "Verbose"}

\* the flag token of the input, before and behind the dash
InputTokens == {p.str : p \in {q \in PairsUnder(input) : q.rule = "flags"}}

\* the flags a text of codes names
Named(codes) == {Flag_from_char(codes[i]).val : i \in DOMAIN codes}

GroupFlagValues == {n.quantifiable.flags : n \in TopGroups}

\* C11: the positive and negative flags of every group flags value that was
\* built are disjoint; a token with a flag on both sides of the dash is an
\* error.
C11_GroupFlagsDisjoint ==
    Built => \A f \in GroupFlagValues : Range(f.pos) \cap Range(f.neg) = {}

Reorderings(s) ==
    {[i \in DOMAIN s |-> s[f[i]]] :
         f \in {g \in [DOMAIN s -> DOMAIN s] : \A i, j \in DOMAIN s : g[i] = g[j] => i = j}}

\* C12: the comparison on Flag is a total order in which only a flag and
\* itself are Equal, so a flag set holds exactly the distinct flags added
\* to it, in an order that does not depend on the order of the additions.
C12_FlagOrder ==
    Built =>
        /\ \A a, b \in AllFlags :
               /\ Flag_cmp(a, b) = "Equal" => a = b
               /\ Flag_cmp(a, b) = "Greater" <=> Flag_cmp(b, a) = "Less"
        /\ \A f \in GroupFlagValues : \A t \in InputTokens :
               LET codes == split(t, "-")[1]
               IN  /\ Range(f.pos) = Named(codes)
                   /\ \A other \in Reorderings(codes) : add_chars(<<>>, other) = Ok(f.pos)

Count(s, c) == Cardinality({i \in DOMAIN s : s[i] = c})

CodesOfFlags(keys) == [i \in DOMAIN keys |-> Flag_as_str(keys[i])]

\* C13: group flags without negative flags render as `?` and the positive
\* codes, with negative flags as `?`, the positive codes, `-` and the
\* negative codes: one `?`, at the start, and one `-`.
C13_FlagRendering ==
    (Built /\ text # None) =>
        \E f \in GroupFlagValues :
            /\ text[1] = <<"?">> \o CodesOfFlags(f.pos)
                             \o (IF f.neg = <<>> THEN <<>> ELSE <<"-">> \o CodesOfFlags(f.neg))
            /\ Count(text[1], "?") = 1
            /\ Count(text[1], "-") = (IF f.neg = <<>> THEN 0 ELSE 1)

\* C14: with_flags fails with NegativePatternFlags whenever the flags have
\* negative flags, and otherwise gives a whole-pattern node with exactly
\* those flags and the sub-patterns of the receiver, a bare sub-pattern
\* becoming the only one.
C14_WithFlags ==
    [][\A flags \in CallerFlags :
           WithFlagsOf(flags) =>
               IF flags.neg # <<>>
               THEN pattern'[1] = Err([kind |-> "NegativePatternFlags"])
               ELSE /\ pattern'[1].ok
                    /\ pattern'[1].val.kind = "Pat"
                    /\ pattern'[1].val.flags = flags
                    /\ pattern'[1].val.sub_patterns
                           = (IF pattern[1].val.kind = "Pat"
                              THEN pattern[1].val.sub_patterns
                              ELSE <<pattern[1].val.sp>>)]_vars

\* with_flags has refused negative flags
C14_Witness ==
    /\ ops = 1
    /\ pattern # None
    /\ pattern[1] = Err([kind |-> "NegativePatternFlags"])

(***************************************************************************)
(* Character sets.                                                         *)
(***************************************************************************)
\* the members of the bracket expression of the input, left to right
InputItems ==
    SelectSeq(input.inner[1].inner[1].inner,
              LAMBDA p : p.rule \in {"char_range", "char_class", "set_literal"})

IsInverted(p) ==
    p.rule = "char_range" /\ ord(p.inner[1].str[1]) > ord(p.inner[3].str[1])

\* C17: building a bracket expression with a range whose low bound is above
\* its high bound, as in [z-a], fails with InvalidRanges naming that pair;
\* no character set comes of it.
C17_InvertedRangeRefused ==
    phase = "built" =>
        \A i \in DOMAIN InputItems :
            (IsInverted(InputItems[i]) /\ \A j \in 1..(i - 1) : InputItems[j].rule # "char_class")
                => /\ ~pattern[1].ok
                   /\ pattern[1].err.kind = "InvalidRanges"
                   /\ \E j \in DOMAIN InputItems :
                          /\ IsInverted(InputItems[j])
                          /\ pattern[1].err.bad_ranges
                                 = << <<InputItems[j].inner[1].str[1],
                                        InputItems[j].inner[3].str[1]>> >>

ClassNames == {"d", "D", "s", "S", "w", "W"}

ClassOf(name) ==
    [class |-> CASE name \in {"d", "D"} -> "D"
                 [] name \in {"s", "S"} -> "S"
                 [] name \in {"w", "W"} -> "W",
     negated |-> name \in {"D", "S", "W"}]

ClassPairs == {p \in PairsUnder(input) : p.rule = "char_class"}

\* C19: a predefined class is built from a backslash child and a class-name
\* child exactly when the name is one of d, D, s, S, w, W, as Digit,
\* Whitespace or Word, negated for the upper-case names; any other name
\* fails with InvalidCharClass carrying the offending text.
C19_CharClassFromPair ==
    phase = "built" =>
        \A p \in ClassPairs :
            LET name == p.inner[2].str
            IN  IF name[1] \in ClassNames
                THEN CharClass_from_pair(p) = Ok(ClassOf(name[1]))
                ELSE CharClass_from_pair(p) = Err([kind |-> "InvalidCharClass",
                                                    bad_cclass |-> name])

(***************************************************************************)
(* Failure of a build.                                                     *)
(***************************************************************************)
\* the pairs of a parse tree in document order
RECURSIVE PairPreorder(_)
RECURSIVE PairPreorderAll(_)
PairPreorder(pair) == <<pair>> \o PairPreorderAll(pair.inner)

PairPreorderAll(pairs) ==
    IF pairs = <<>> THEN <<>>
    ELSE PairPreorder(Head(pairs)) \o PairPreorderAll(Tail(pairs))

\* what the builder of a leaf makes of it
LeafResult(pair) ==
    CASE pair.rule = "zero_width_literal" -> ZeroWidthLiteral_from_pair(pair)
      [] pair.rule = "char_class" -> CharClass_from_pair(pair)
      [] pair.rule = "flags" -> GroupFlags_from_pair(pair)
      [] OTHER -> Ok(pair.str)

Failing(pair) == ~LeafResult(pair).ok

FailingParts == SelectSeq(PairPreorder(input), Failing)

\* C20: a build gives a complete tree or an error: when a part fails at any
\* depth, in a pattern, a group, an alternation or a ternary branch, the
\* build gives that failure and no pattern, and of several failures the
\* leftmost.
C20_FirstFailure ==
    phase = "built" =>
        IF FailingParts = <<>> THEN pattern[1].ok
        ELSE /\ ~pattern[1].ok
             /\ DOMAIN pattern[1] = {"ok", "err"}
             /\ pattern[1].err = LeafResult(FailingParts[1]).err

\* two parts of one component of the input fail in different ways
C20_Witness ==
    /\ phase = "built"
    /\ Len(FailingParts) >= 2
    /\ LeafResult(FailingParts[1]).err # LeafResult(FailingParts[2]).err
    /\ pattern[1] = Err(LeafResult(FailingParts[1]).err)
    /\ Len(input.inner) = 1

(***************************************************************************)
(* Dispatch of the builder functions.                                      *)
(***************************************************************************)
\* the kinds of pair a builder function matches on
Expects(b) ==
    CASE b = "Element::from_pair" -> {"char_set", "literals"}
      [] b = "Element::charset_from_pair" -> {"char_set"}
      [] b = "Literal::from_pair" -> {"literals"}
      [] b = "CharSet::from_pair" -> {"char_set"}
      [] b = "Quantifier::from_pair" -> {"quantifier"}
      [] b = "Quantified::from_pair" -> {"char_set", "literals", "group"}
      [] b = "SubPattern::single_from_pair" ->
             {"alternatives", "group", "literals", "char_set", "zero_width_literal",
              "comment_group"}

KindBuilders ==
    Builders \ {"CharClass::from_pair", "SubPattern::from_pair"}

Panicked(r) == ~r.ok /\ r.err.kind = "Panic"

\* C21: a builder function handed a pair of a kind it does not expect gives
\* UnexpectedInput with the pair's text and position, handed a pair without
\* the child it needs gives UnexpectedEndOfInput with the position, and
\* none panics, CharSet::from_pair on a pair that is no char_set included.
C21_DispatchTotal ==
    [][\A b \in Builders :
          FromPair(b) =>
              LET r == pattern'[1]
              IN  /\ ~Panicked(r)
                  /\ (b \in KindBuilders /\ input.rule \notin Expects(b))
                         => r = Err(unexpected_input(input))
                  /\ (b \notin KindBuilders /\ input.inner = <<>>)
                         => r = Err(unexpected_eoi(input.col))
                  /\ (b = "Quantifier::from_pair" /\ input.rule = "quantifier"
                          /\ input.inner = <<>>)
                         => r = Err(unexpected_eoi(input.col))]_vars

(***************************************************************************)
(* Quantifiers: rendering against parsing.                                 *)
(***************************************************************************)
\* the quantifier pairs the grammar hands over for a text
QuantifierTrees(t) == {p \in QuantifierPairs : p.str = t}

\* C22: for every quantifier the parser produces, each of ? * + {n} {m,n}
\* {m,} {,n} in each greediness mode, as_string gives a text (it does not
\* reach its unreachable arm) whose parse is an equal quantifier.
C22_QuantifierRoundTrip ==
    (Built /\ ops = 0) =>
        \A n \in QuantifierNodes :
            LET q == unwrap(n.quantifier)
                t == Quantifier_as_string(q)
            IN  /\ t # Panic
                /\ QuantifierTrees(t) # {}
                /\ \A p \in QuantifierTrees(t) : Quantifier_from_pair(p) = Ok(q)

\* a possessive {,n} has been parsed and comes back from its own text
C22_Witness ==
    /\ Built
    /\ ops = 0
    /\ \E n \in QuantifierNodes :
           LET q == unwrap(n.quantifier)
           IN  /\ q.quantifier.kind = "NTimes"
               /\ q.quantifier.min = None
               /\ q.greed = "Possessive"
               /\ Quantifier_as_string(q) = input.inner[1].inner[2].str
               /\ \E p \in QuantifierTrees(Quantifier_as_string(q)) :
                      Quantifier_from_pair(p) = Ok(q)

(***************************************************************************)
(* Alternations.                                                           *)
(***************************************************************************)
AlternativesNodes == {n \in AllNodes : n.kind = "Alternatives"}

\* C23: every alternation of a tree holds at least two alternatives,
\* whichever constructor made it.
C23_TwoAlternatives == Built => \A n \in AlternativesNodes : Len(n.alts) >= 2

\* texts joined by a separator
RECURSIVE Join(_, _)
Join(parts, sep) ==
    IF parts = <<>> THEN <<>>
    ELSE IF Len(parts) = 1 THEN parts[1]
    ELSE parts[1] \o sep \o Join(Tail(parts), sep)

\* C24: an alternation of k alternatives renders as their renderings in
\* order with k - 1 separators between them, none before the first and none
\* behind the last.
C24_AlternativesRendering ==
    Built =>
        \A n \in AlternativesNodes :
            LET parts == [i \in DOMAIN n.alts |-> SubPattern_as_string(n.alts[i])]
            IN  (\A i \in DOMAIN parts : parts[i] # Panic)
                    => Alternatives_as_string(n) = Join(parts, <<"|">>)

(***************************************************************************)
(* The pattern combinators and the capturing groups.                       *)
(***************************************************************************)
\* the number of indexed groups of a pattern
GroupsIn(p) == Len(CapturingGroups(p))

\* C30: the combinators add no capturing group of their own: follow_with
\* and alternate_with give as many indexed groups as the two patterns have
\* together, quantify as many as the pattern has.
C30_CombinatorsAddNoGroup ==
    [][LET a == pattern[1].val
       IN  /\ \A b \in Operands :
                 /\ Constructed(Pattern_follow_with(a, b))
                        => GroupsIn(pattern'[1].val) = GroupsIn(a) + GroupsIn(b)
                 /\ Constructed(Pattern_alternate_with(a, b))
                        => GroupsIn(pattern'[1].val) = GroupsIn(a) + GroupsIn(b)
           /\ \A q \in CallerQuantifiers :
                 Constructed(Pattern_quantify(a, q))
                     => GroupsIn(pattern'[1].val) = GroupsIn(a)]_vars

(***************************************************************************)
(* Minimal match length of groups and literals.                            *)
(***************************************************************************)
GroupNodes == {n \in AllNodes : n.kind = "Quantified" /\ n.quantifiable.kind = "Group"}

BackrefNodes == {n \in AllNodes : n.kind = "Quantified" /\ n.quantifiable.kind = "NamedBackref"}

\* C25: min_match_len of a non-capturing group is 0 whatever it holds, of
\* every other general group (plain, named, atomic, lookahead, lookbehind)
\* the sum of its components' min_match_len, of a named backreference 0.
C25_GroupMinMatchLen ==
    Built =>
        /\ \A n \in GroupNodes :
               Group_min_match_len(n.quantifiable)
                   = IF n.quantifiable.ext = Some("NonCapturing") THEN 0
                     ELSE SumOf(MinLens(n.quantifiable.components))
        /\ \A n \in BackrefNodes : Group_min_match_len(n.quantifiable) = 0

\* a non-capturing group and a lookahead group, each around something that
\* takes at least two characters
C25_Witness ==
    /\ Built
    /\ \E n \in GroupNodes :
           /\ n.quantifiable.ext = Some("NonCapturing")
           /\ SumOf(MinLens(n.quantifiable.components)) >= 2
           /\ Group_min_match_len(n.quantifiable) = 0
    /\ \E n \in GroupNodes :
           /\ n.quantifiable.ext = Some("PosLookahead")
           /\ Group_min_match_len(n.quantifiable) >= 2

LiteralNodes == {n \in AllNodes : n.kind = "Quantified" /\ n.quantifiable.kind = "Literal"}

\* C26: min_match_len of a literal is the number of characters of the
\* literal, characters outside ASCII included.
C26_LiteralMinMatchLen ==
    Built => \A n \in LiteralNodes :
                 Literal_min_match_len(n.quantifiable) = Len(n.quantifiable.lit)

(***************************************************************************)
(* A quantified element and the sibling that follows it.                   *)
(***************************************************************************)
\* C27: building a quantified element takes the next sibling off the
\* iterator exactly when that sibling is a quantifier; when there is none or
\* it is of another kind the result has no quantifier, the build does not
\* fail and the siblings are left as they were.
C27_QuantifierConsumed ==
    [][QuantifiedFromPair =>
           LET pair == Head(input.inner)
               siblings == Tail(input.inner)
               alone == Quantified_from_pair(pair, <<>>).res
               r == pattern'[1]
               left == input'.inner
           IN  alone.ok =>
                   IF siblings # <<>> /\ Head(siblings).rule = "quantifier"
                   THEN /\ left = Tail(siblings)
                        /\ r.ok => r.val.quantifier # None
                   ELSE /\ left = siblings
                        /\ r = alone
                        /\ r.val.quantifier = None]_vars

\* an element was built with a literal and a quantifier behind it: it has no
\* quantifier and both siblings are still on the iterator
C27_Witness ==
    /\ phase = "built"
    /\ pattern[1].ok
    /\ pattern[1].val.kind = "Quantified"
    /\ pattern[1].val.quantifier = None
    /\ Len(input.inner) = 2
    /\ input.inner[1].rule = "literals"
    /\ input.inner[2].rule = "quantifier"

(***************************************************************************)
(* Ternary groups.                                                         *)
(***************************************************************************)
\* the ternary pair of the input and what it holds
TernaryIn == CHOOSE p \in PairsUnder(input) : p.rule = "ternary"

HasId == Len(TernaryIn.inner) >= 1 /\ Len(TernaryIn.inner[1].inner) >= 2

HasYes == Len(TernaryIn.inner) >= 3

HasSeparator == Len(TernaryIn.inner) >= 4

HasNo == Len(TernaryIn.inner) >= 5

YesBuilds == HasYes /\ SubPattern_from_pair(TernaryIn.inner[3]).ok

IdBuilds ==
    HasId /\ TernaryIn.inner[1].inner[2].rule \in {"numbered_group_id", "named_group_id"}

\* C28: a ternary group is built only when an identifier and a yes branch
\* are there; it has no no-branch exactly when no separator follows the yes
\* branch and has one exactly when a separator and a sub-pattern follow; a
\* separator with nothing behind it, a missing identifier and a missing yes
\* branch each fail with UnexpectedEndOfInput.
C28_TernaryParts ==
    phase = "built" =>
        LET r == pattern[1]
            eoi == Err(unexpected_eoi(TernaryIn.col))
        IN  /\ r.ok => /\ HasId /\ HasYes
                       /\ LET g == r.val.sub_patterns[1].quantifiable
                          IN  /\ g.kind = "Ternary"
                              /\ g.no_pat = None <=> ~HasSeparator
                              /\ g.no_pat # None <=> HasSeparator /\ HasNo
            /\ (~HasId \/ (IdBuilds /\ ~HasYes)) => r = eoi
            /\ (IdBuilds /\ YesBuilds /\ HasSeparator /\ ~HasNo) => r = eoi

\* a ternary group with an identifier, a yes branch and a separator, and
\* nothing behind the separator, was refused
C28_Witness ==
    /\ phase = "built"
    /\ IdBuilds /\ YesBuilds /\ HasSeparator /\ ~HasNo
    /\ pattern[1] = Err(unexpected_eoi(TernaryIn.col))

(***************************************************************************)
(* The two counts of capturing groups.                                     *)
(***************************************************************************)
\* C29: groups_count and the indexed list of GroupIndices::new agree on
\* every built pattern, also when capturing groups stand inside
\* non-capturing, atomic or lookaround groups or inside alternatives.
C29_CountsAgree ==
    (Built /\ indices # None) =>
        Pattern_groups_count(pattern[1].val) = Len(indices[1].indexed)

====
